---- MODULE Spec2Model ----
(***************************************************************************)
(* TS2Go: the IR transformer (src/src/ir/transformer.ts), the IR optimizer *)
(* and the Go code generator (src/src/optimizer/optimizer.ts) and the      *)
(* compiler that chains them (src/unnamed/part_014), as state machines     *)
(* over a bounded IR.                                                      *)
(*                                                                         *)
(* SpecDCE       : a module is drawn from the bounded IR and the           *)
(*                 dead-code-elimination pass is run on it repeatedly.     *)
(* SpecEmit      : one GoCodeGenerator instance generates a sequence of    *)
(*                 modules, as Compiler.compileProject does.               *)
(* SpecClass     : the same, for modules of functions and classes with     *)
(*                 constructors, static and instance methods.              *)
(* SpecOptimize  : an IROptimizer of some level; passes are added and      *)
(*                 optimize is called on one module.                       *)
(* SpecCompile   : Compiler.compileFile: optimize, then generate.          *)
(* SpecTransform : IRTransformer.transform on a bounded source file.       *)
(* SpecFile      : Compiler.compileFile with a stage that may throw.       *)
(* SpecFunctions : generate on modules of async functions and functions    *)
(*                 with try statements, under both error strategies.       *)
(* SpecWatch     : the watch command: file events and the compile calls    *)
(*                 they start; SpecWatchLive adds that a started compile   *)
(*                 settles.                                                *)
(* SpecExports   : dead-code elimination on modules with export lists.     *)
(* SpecProject   : Compiler.compileProject and compileFile on the same     *)
(*                 files.                                                  *)
(* SpecVisitor   : accept of an IR node on a visitor.                      *)
(***************************************************************************)
EXTENDS Integers, Sequences, FiniteSets, TLC

VARIABLES
    module,      \* DCE: statements of the current ir.Module
    input,       \* DCE: statements of the module handed to the last run
    passes,      \* DCE: number of DeadCodeEliminationPass.run calls so far
    gen,         \* emitter: the GoCodeGenerator instance's fields
    code,        \* emitter: the code of the last generate call
    lastModule,  \* emitter: the module of the last generate call
    runs,        \* emitter: number of generate calls so far
    optimizer,   \* the IROptimizer instance: its options' level and its passes
    heap,        \* the ir.Module objects the optimizer has seen or created
    log,         \* the pass.run calls of the optimize calls so far
    compilation, \* compiler: the CompilationResult of the last compileFile call
    watch        \* watch command: the compiling flag, the events and the calls

dceVars == <<module, input, passes>>
emitVars == <<gen, code, lastModule, runs>>
optVars == <<optimizer, heap, log>>
cliVars == <<compilation, watch>>
vars == <<module, input, passes, gen, code, lastModule, runs, optimizer, heap, log,
          compilation, watch>>

\* ------------------------------------------------------------------ bounds
\* Longest top-level statement list of a module handed to the optimizer.
MaxStmts == 2
\* Number of successive DeadCodeEliminationPass.run calls observed.
MaxPasses == 2

\* ------------------------------------------------------------ helpers
RECURSIVE SeqFilter(_, _)
SeqFilter(s, keep) ==
    IF s = <<>> THEN <<>>
    ELSE IF Head(s) \in keep THEN <<Head(s)>> \o SeqFilter(Tail(s), keep)
    ELSE SeqFilter(Tail(s), keep)

Range(s) == {s[i] : i \in 1..Len(s)}

\* ------------------------------------------------------------ the IR (DCE)
\* Top-level declaration names; within one module they are unique, so the
\* statement at position i of the input is named DeclNames[i].
DeclNames == <<"a", "b", "c", "d">>

DeclKinds == {"VariableDeclaration", "FunctionDeclaration", "ClassDeclaration",
              "InterfaceDeclaration", "TypeAliasDeclaration", "EnumDeclaration"}

\* The child of a node in which the node's one Identifier / TypeReference
\* occurs ("" when the node mentions no name).
Slots(kind) ==
    CASE kind = "VariableDeclaration" -> {"type", "initializer"}
      [] kind = "FunctionDeclaration" ->
            {"parameters.type", "parameters.defaultValue", "returnType", "body"}
      [] kind = "ClassDeclaration" ->
            {"extendsClause", "implementsClauses", "property.type",
             "property.initializer", "method.parameters", "method.returnType",
             "method.body"}
      [] kind = "InterfaceDeclaration" -> {"members", "extendsClauses"}
      [] kind = "TypeAliasDeclaration" -> {"type"}
      [] kind = "EnumDeclaration" -> {"members.value"}
      [] kind = "ExpressionStatement" -> {"expression"}

\* instanceof ir.Declaration
IsDeclaration(stmt) == stmt.kind \in DeclKinds

\* The names occurring in child `slot` of `node`.
Child(node, slot) == IF node.slot = slot /\ node.ref # "" THEN {node.ref} ELSE {}

\* Every identifier or type-reference name occurring anywhere inside node.
NamesIn(node) == IF node.ref # "" THEN {node.ref} ELSE {}

\* ------------------------------------------------- SymbolCollector (DCE)
\* Each visitor returns the names it adds to `used`.
SymbolCollector_visitVariableDeclaration(node) ==
    Child(node, "type") \cup Child(node, "initializer")

\* visitParameter visits the parameter's type, not its default value.
SymbolCollector_visitParameter(node) == Child(node, "parameters.type")

SymbolCollector_visitFunctionDeclaration(node) ==
    SymbolCollector_visitParameter(node) \cup Child(node, "returnType")
        \cup Child(node, "body")

SymbolCollector_visitPropertyMember(node) == Child(node, "property.type")

SymbolCollector_visitMethodMember(node) ==
    Child(node, "method.parameters") \cup Child(node, "method.body")

SymbolCollector_visitClassDeclaration(node) ==
    SymbolCollector_visitPropertyMember(node) \cup SymbolCollector_visitMethodMember(node)

SymbolCollector_visitInterfaceDeclaration(node) == Child(node, "members")

SymbolCollector_visitTypeAliasDeclaration(node) == Child(node, "type")

SymbolCollector_visitEnumMember(node) == {}

SymbolCollector_visitEnumDeclaration(node) == SymbolCollector_visitEnumMember(node)

SymbolCollector_visitExpressionStatement(node) == Child(node, "expression")

\* stmt.accept(visitor)
SymbolCollector_accept(node) ==
    CASE node.kind = "VariableDeclaration" -> SymbolCollector_visitVariableDeclaration(node)
      [] node.kind = "FunctionDeclaration" -> SymbolCollector_visitFunctionDeclaration(node)
      [] node.kind = "ClassDeclaration" -> SymbolCollector_visitClassDeclaration(node)
      [] node.kind = "InterfaceDeclaration" -> SymbolCollector_visitInterfaceDeclaration(node)
      [] node.kind = "TypeAliasDeclaration" -> SymbolCollector_visitTypeAliasDeclaration(node)
      [] node.kind = "EnumDeclaration" -> SymbolCollector_visitEnumDeclaration(node)
      [] node.kind = "ExpressionStatement" -> SymbolCollector_visitExpressionStatement(node)

\* ------------------------------------------- DeadCodeEliminationPass
collectUsedSymbols(statements) ==
    UNION {SymbolCollector_accept(statements[i]) : i \in 1..Len(statements)}

\* isExported testing for the wrong modifier kind.
isExported_default(decl) == "default" \in decl.modifiers

isExported(decl) == "export" \in decl.modifiers

\* The filter of run without its instanceof ir.Declaration test.
KeptByRun_everyStatement(stmt, usedSymbols) ==
    stmt.name \in usedSymbols \/ isExported(stmt)

\* The filter predicate of run: declarations stay when used or exported,
\* every other statement stays.
KeptByRun(stmt, usedSymbols) ==
    IF IsDeclaration(stmt)
    THEN stmt.name \in usedSymbols \/ isExported(stmt)
    ELSE TRUE

\* DeadCodeEliminationPass.run: the statement list of the new Module.
DeadCodeEliminationPass_run(statements) ==
    LET usedSymbols == collectUsedSymbols(statements)
    IN SeqFilter(statements, {s \in Range(statements) : KeptByRun(s, usedSymbols)})

\* -------------------------------------------------- bounded modules (DCE)
RefTargets == {DeclNames[i] : i \in 1..MaxStmts}

\* The statements that may stand at position i of an input module.
StmtsAt(i) ==
    {[kind |-> k, name |-> DeclNames[i], modifiers |-> m, slot |-> "", ref |-> ""] :
        k \in DeclKinds, m \in {{}, {"export"}}}
    \cup UNION {
        {[kind |-> k, name |-> DeclNames[i], modifiers |-> m, slot |-> s, ref |-> r] :
            s \in Slots(k), r \in RefTargets, m \in {{}, {"export"}}} : k \in DeclKinds}
    \cup {[kind |-> "ExpressionStatement", name |-> "", modifiers |-> {}, slot |-> "", ref |-> ""]}
    \cup {[kind |-> "ExpressionStatement", name |-> "", modifiers |-> {},
           slot |-> "expression", ref |-> r] : r \in RefTargets}

\* ------------------------------------------------------------- SpecDCE
EmitIdle ==
    /\ gen = <<>>
    /\ code = <<>>
    /\ lastModule = <<>>
    /\ runs = 0

OptimizerIdle ==
    /\ optimizer = <<>>
    /\ heap = <<>>
    /\ log = <<>>

\* No compileFile call has been made and no watcher runs.
CliIdle ==
    /\ compilation = <<>>
    /\ watch = <<>>

InitDCE ==
    /\ module = <<>>
    /\ input = <<>>
    /\ passes = 0
    /\ EmitIdle
    /\ OptimizerIdle
    /\ CliIdle

\* IRTransformer.transform: module.statements.push(stmt), one top-level
\* statement at a time, before the optimizer sees the module.
Lower ==
    /\ passes = 0
    /\ Len(module) < MaxStmts
    /\ \E stmt \in StmtsAt(Len(module) + 1) : module' = Append(module, stmt)
    /\ UNCHANGED <<input, passes>>
    /\ UNCHANGED emitVars
    /\ UNCHANGED optVars
    /\ UNCHANGED cliVars

\* optimized = pass.run(optimized, options), for the dead-code-elimination pass
RunDCE ==
    /\ passes < MaxPasses
    /\ input' = module
    /\ module' = DeadCodeEliminationPass_run(module)
    /\ passes' = passes + 1
    /\ UNCHANGED emitVars
    /\ UNCHANGED optVars
    /\ UNCHANGED cliVars

NextDCE == Lower \/ RunDCE

SpecDCE == InitDCE /\ [][NextDCE]_vars

\* ------------------------------------------------- claims on SpecDCE
DeclaredIn(statements) ==
    {statements[i].name : i \in {j \in 1..Len(statements) : IsDeclaration(statements[j])}}

NonDeclarations(statements) ==
    SeqFilter(statements, {s \in Range(statements) : ~IsDeclaration(s)})

\* C1: after one pass, every name occurring anywhere inside a kept declaration
\* that names a declaration of the pass's input names a kept declaration.
C1_FreeNamesRetained ==
    passes = 1 =>
        \A i \in 1..Len(module) :
            IsDeclaration(module[i]) =>
                \A n \in NamesIn(module[i]) :
                    n \in DeclaredIn(input) => n \in DeclaredIn(module)

\* C2: a second pass over the output of a pass changes nothing.
C2_SecondPassChangesNothing == passes >= 2 => module = input

\* C3: a kept declaration without the export modifier is mentioned by some
\* statement that the same pass kept.
C3_NoneKeptForDroppedReferrer ==
    passes >= 1 =>
        \A i \in 1..Len(module) :
            (IsDeclaration(module[i]) /\ "export" \notin module[i].modifiers) =>
                \E j \in 1..Len(module) : module[i].name \in NamesIn(module[j])

Out(o, g) == [out |-> o, g |-> g]

\* The element of a one-element set: `Bind({e : r \in {call}})` is e with r
\* standing for the value the call returned.
Bind(S) == CHOOSE v \in S : TRUE

\* Field initializers of a newly constructed GoCodeGenerator.
NewGenerator ==
    [indentLevel |-> 0,
     imports |-> <<>>,               \* a Set iterates in insertion order
     needsContext |-> FALSE,
     needsRuntime |-> FALSE,
     tupleTypes |-> {},              \* Map: <<name, tuple>> entries
     generatedTupleTypes |-> {},
     currentReceiverName |-> "",
     currentClassName |-> "",
     privateFieldNames |-> {},
     fieldTypeMap |-> {},
     options |-> [errorHandling |-> "return"]]   \* defaultOptions

reset(g) ==
    [g EXCEPT !.indentLevel = 0,
              !.imports = <<>>,
              !.needsContext = FALSE,
              !.needsRuntime = FALSE,
              !.tupleTypes = {},
              !.generatedTupleTypes = {}]

indent(g) == [i \in 1..g.indentLevel |-> "\t"]

increaseIndent(g) == [g EXCEPT !.indentLevel = @ + 1]

decreaseIndent(g) == [g EXCEPT !.indentLevel = IF @ - 1 > 0 THEN @ - 1 ELSE 0]

addImport(g, pkg) ==
    IF pkg \in Range(g.imports) THEN g ELSE [g EXCEPT !.imports = Append(@, pkg)]

\* str.charAt(0).toUpperCase() + str.slice(1), on the identifiers of the
\* bounded IR.
capitalize(str) ==
    CASE str = "count" -> "Count"
      [] str = "t" -> "T"
      [] str = "u" -> "U"
      [] str = "d" -> "D"
      [] str = "f" -> "F"
      [] str = "g" -> "G"
      [] str = "h" -> "H"
      [] str = "obj" -> "Obj"
      [] str = "value" -> "Value"
      [] str = "set" -> "Set"
      [] str = "has" -> "Has"
      [] str = "instance" -> "Instance"
      [] str = "getInstance" -> "GetInstance"
      [] OTHER -> str

hasModifier(modifiers, kind) == kind \in modifiers

exportName(name, forceExport) ==
    IF forceExport \/ hasModifier({}, "export") THEN capitalize(name) ELSE name

\* ------------------------------------------------------------ IR types
NoType == [k |-> "", name |-> "", elems |-> <<>>]
PrimitiveType(kind) == [k |-> "PrimitiveType", name |-> kind, elems |-> <<>>]
ArrayType(elementType) == [k |-> "ArrayType", name |-> "", elems |-> <<elementType>>]
TupleType(elements) == [k |-> "TupleType", name |-> "", elems |-> elements]
TypeReference(name, typeArguments) ==
    [k |-> "TypeReference", name |-> name, elems |-> typeArguments]

Digit(n) == <<"0", "1", "2", "3", "4">>[n + 1]

RECURSIVE JoinWith(_, _)
JoinWith(parts, sep) ==
    IF parts = <<>> THEN <<>>
    ELSE IF Len(parts) = 1 THEN parts[1]
    ELSE parts[1] \o <<sep>> \o JoinWith(Tail(parts), sep)

visitPrimitiveType(node) ==
    CASE node.name = "number" -> "float64"
      [] node.name = "string" -> "string"
      [] node.name = "boolean" -> "bool"
      [] node.name = "void" -> "interface{}"
      [] node.name \in {"any", "unknown"} -> "interface{}"
      [] node.name = "never" -> ""
      [] OTHER -> "interface{}"

\* typeName.replace(/\[\]/g, 'Array').replace(/\*/g, 'Ptr').replace(/{}/g, '')
SimplifyTypeName(typeName) ==
    [i \in 1..Len(typeName) |->
        CASE typeName[i] = "[]" -> "Array"
          [] typeName[i] = "*" -> "Ptr"
          [] typeName[i] = "interface{}" -> "interface"
          [] OTHER -> typeName[i]]

tupleTypes_has(g, typeName) == \E e \in g.tupleTypes : e[1] = typeName

tupleTypes_get(g, typeName) == (CHOOSE e \in g.tupleTypes : e[1] = typeName)[2]

RECURSIVE visitType(_, _)
RECURSIVE visitTypes(_, _)

\* types.map(t => t.accept(this)): the texts in order, the fields threaded.
visitTypes(g, types) ==
    IF types = <<>> THEN Out(<<>>, g)
    ELSE Bind({
                 Bind({Out(<<first.out>> \o rest.out, rest.g)
                 : rest \in {visitTypes(first.g, Tail(types))}})
         : first \in {visitType(g, Head(types))}})

generateTupleTypeName(g, tuple) ==
    Bind({
            Out(<<"Tuple", Digit(Len(tuple.elems)), "_">>
                    \o JoinWith([i \in 1..Len(typeNames.out) |->
                                    SimplifyTypeName(typeNames.out[i])], "_"),
                typeNames.g)
    : typeNames \in {visitTypes(g, tuple.elems)}})

registerTupleType(g, tuple) ==
    Bind({
            Out(typeName.out,
                IF tupleTypes_has(typeName.g, typeName.out)
                THEN typeName.g
                ELSE [typeName.g EXCEPT !.tupleTypes = @ \cup {<<typeName.out, tuple>>}])
    : typeName \in {generateTupleTypeName(g, tuple)}})

visitArrayType(g, node) ==
    Bind({Out(<<"[]">> \o elementType.out, elementType.g)
    : elementType \in {visitType(g, node.elems[1])}})

visitTupleType(g, node) == registerTupleType(g, node)

visitTypeReference(g, node) ==
    IF node.name = "Date" THEN Out(<<"time.Time">>, addImport(g, "time"))
    ELSE IF node.name = "Array" /\ Len(node.elems) = 1
    THEN Bind({Out(<<"[]">> \o elementType.out, elementType.g)
         : elementType \in {visitType(g, node.elems[1])}})
    ELSE IF Len(node.elems) > 0
    THEN Bind({
                 Out(<<node.name, "[">> \o JoinWith(typeArgs.out, ", ") \o <<"]">>,
                     typeArgs.g)
         : typeArgs \in {visitTypes(g, node.elems)}})
    ELSE Out(<<node.name>>, g)

\* node.accept(this) for a type node
visitType(g, node) ==
    CASE node.k = "PrimitiveType" -> Out(<<visitPrimitiveType(node)>>, g)
      [] node.k = "ArrayType" -> visitArrayType(g, node)
      [] node.k = "TupleType" -> visitTupleType(g, node)
      [] node.k = "TypeReference" -> visitTypeReference(g, node)

RECURSIVE TupleFields(_, _, _)
\* the `\tItem${i} ${fieldType}\n` lines of a tuple's record, from element i on
TupleFields(g, tuple, i) ==
    IF i > Len(tuple.elems) THEN Out(<<>>, g)
    ELSE Bind({
                 Bind({
                         Out(<<"\tItem", Digit(i - 1), " ">> \o fieldType.out \o <<"\n">>
                                 \o rest.out, rest.g)
                 : rest \in {TupleFields(fieldType.g, tuple, i + 1)}})
         : fieldType \in {visitType(g, tuple.elems[i])}})

\* generateTupleTypeInline without the generatedTupleTypes test.
generateTupleTypeInline_always(g, typeName) ==
    IF ~tupleTypes_has(g, typeName) THEN Out(<<>>, g)
    ELSE Bind({
                 Out(<<"type ">> \o typeName \o <<" struct {\n">> \o fields.out
                         \o <<"}\n\n">>, fields.g)
         : fields \in {TupleFields([g EXCEPT !.generatedTupleTypes = @ \cup {typeName}],
                                   tupleTypes_get(g, typeName), 1)}})

generateTupleTypeInline(g, typeName) ==
    IF typeName \in g.generatedTupleTypes THEN Out(<<>>, g)
    ELSE IF ~tupleTypes_has(g, typeName) THEN Out(<<>>, g)
    ELSE Bind({
                 Out(<<"type ">> \o typeName \o <<" struct {\n">> \o fields.out
                         \o <<"}\n\n">>, fields.g)
         : fields \in {TupleFields([g EXCEPT !.generatedTupleTypes = @ \cup {typeName}],
                                   tupleTypes_get(g, typeName), 1)}})

\* ------------------------------------------------------ IR expressions
NoExpr == [k |-> "", name |-> "", args |-> <<>>]
Identifier(name) == [k |-> "Identifier", name |-> name, args |-> <<>>]
Literal(raw) == [k |-> "Literal", name |-> raw, args |-> <<>>]
MemberExpression(object, property) ==
    [k |-> "MemberExpression", name |-> "", args |-> <<object, property>>]
NewExpression(callee) == [k |-> "NewExpression", name |-> "", args |-> <<callee>>]
AssignmentExpression(operator, left, right) ==
    [k |-> "AssignmentExpression", name |-> operator, args |-> <<left, right>>]
UnaryExpression(operator, argument) ==
    [k |-> "UnaryExpression", name |-> operator, args |-> <<argument>>]
BinaryExpression(operator, left, right) ==
    [k |-> "BinaryExpression", name |-> operator, args |-> <<left, right>>]
\* A call without type arguments: the callee, then the arguments.
CallExpression(callee, arguments) ==
    [k |-> "CallExpression", name |-> "", args |-> <<callee>> \o arguments]

visitIdentifier(g, node) ==
    IF node.name = "undefined" THEN Out(<<"nil">>, g)
    ELSE IF node.name = "this" /\ g.currentReceiverName # ""
    THEN Out(<<g.currentReceiverName>>, g)
    ELSE Out(<<node.name>>, g)

\* String(node.value) of a numeric literal
visitLiteral(g, node) == Out(<<node.name>>, g)

RECURSIVE visitExpression(_, _)

\* A member access that is neither computed nor optional.
visitMemberExpression(g, node) ==
    Bind({
            Bind({
                    Out(object.out \o <<".">> \o property.out, property.g)
            : property \in {IF node.args[2].k = "Identifier"
                        THEN Out(<<IF node.args[2].name \in object.g.privateFieldNames
                                   THEN node.args[2].name
                                   ELSE capitalize(node.args[2].name)>>, object.g)
                        ELSE visitExpression(object.g, node.args[2])}})
    : object \in {visitExpression(g, node.args[1])}})

\* A new-expression without arguments.
visitNewExpression(g, node) ==
    Bind({
            IF callee.out = <<"Date">>
            THEN Out(<<"time.Now()">>, addImport(callee.g, "time"))
            ELSE Out(<<"New">> \o callee.out \o <<"(", ")">>, callee.g)
    : callee \in {visitExpression(g, node.args[1])}})

visitUnaryExpression(g, node) ==
    Bind({
            IF node.name = "typeof"
            THEN Out(<<"reflect.TypeOf(">> \o arg.out \o <<").String()">>,
                     addImport(arg.g, "reflect"))
            ELSE Out(<<node.name>> \o arg.out, arg.g)
    : arg \in {visitExpression(g, node.args[1])}})

visitAssignmentExpression(g, node) ==
    Bind({
            Bind({
                    Out(left.out \o <<" ", node.name, " ">> \o right.out, right.g)
            : right \in {visitExpression(left.g, node.args[2])}})
    : left \in {visitExpression(g, node.args[1])}})

\* A binary expression visitor that emits every operator as written.
visitBinaryExpression_verbatim(g, node) ==
    Bind({
            Bind({
                    Out(left.out \o <<" ", node.name, " ">> \o right.out, right.g)
            : right \in {visitExpression(left.g, node.args[2])}})
    : left \in {visitExpression(g, node.args[1])}})

visitBinaryExpression(g, node) ==
    Bind({
            Bind({
                    Out(CASE node.name \in {"===", "=="} ->
                                left.out \o <<" ", "==", " ">> \o right.out
                          [] node.name \in {"!==", "!="} ->
                                left.out \o <<" ", "!=", " ">> \o right.out
                          [] node.name = "??" ->
                                <<"func() interface{} { if ">> \o left.out
                                    \o <<" != nil { return ">> \o left.out
                                    \o <<" }; return ">> \o right.out \o <<" }()">>
                          [] OTHER ->
                                left.out \o <<" ", node.name, " ">> \o right.out,
                        right.g)
            : right \in {visitExpression(left.g, node.args[2])}})
    : left \in {visitExpression(g, node.args[1])}})

RECURSIVE visitArguments(_, _)
\* node.args.map(arg => arg.accept(this))
visitArguments(g, arguments) ==
    IF arguments = <<>> THEN Out(<<>>, g)
    ELSE Bind({
                 Bind({Out(<<first.out>> \o rest.out, rest.g)
                 : rest \in {visitArguments(first.g, Tail(arguments))}})
         : first \in {visitExpression(g, Head(arguments))}})

visitCallExpression(g, node) ==
    Bind({
            Bind({
                    Out(callee.out \o <<"(">> \o JoinWith(arguments.out, ", ") \o <<")">>,
                        arguments.g)
            : arguments \in {visitArguments(callee.g, Tail(node.args))}})
    : callee \in {visitExpression(g, node.args[1])}})

\* node.accept(this) for an expression node
visitExpression(g, node) ==
    CASE node.k = "Identifier" -> visitIdentifier(g, node)
      [] node.k = "Literal" -> visitLiteral(g, node)
      [] node.k = "MemberExpression" -> visitMemberExpression(g, node)
      [] node.k = "NewExpression" -> visitNewExpression(g, node)
      [] node.k = "UnaryExpression" -> visitUnaryExpression(g, node)
      [] node.k = "AssignmentExpression" -> visitAssignmentExpression(g, node)
      [] node.k = "BinaryExpression" -> visitBinaryExpression(g, node)
      [] node.k = "CallExpression" -> visitCallExpression(g, node)

\* ------------------------------------------------------- IR statements
Stmt(kind, name, modifiers, type, parameters, returnType, body, members, expression) ==
    [kind |-> kind, name |-> name, modifiers |-> modifiers, type |-> type,
     parameters |-> parameters, returnType |-> returnType, body |-> body,
     members |-> members, expression |-> expression, extendsClause |-> NoType]

VariableDeclaration(name, type) ==
    Stmt("VariableDeclaration", name, {}, type, <<>>, NoType, <<>>, <<>>, NoExpr)
FunctionDeclaration(name, modifiers, parameters, returnType, body) ==
    Stmt("FunctionDeclaration", name, modifiers, NoType, parameters, returnType, body,
         <<>>, NoExpr)
ClassDeclaration(name, members) ==
    Stmt("ClassDeclaration", name, {}, NoType, <<>>, NoType, <<>>, members, NoExpr)
ExpressionStatement(expression) ==
    Stmt("ExpressionStatement", "", {}, NoType, <<>>, NoType, <<>>, <<>>, expression)
ReturnStatement(argument) ==
    Stmt("ReturnStatement", "", {}, NoType, <<>>, NoType, <<>>, <<>>, argument)
Parameter(name, type) == [name |-> name, type |-> type]
\* A class declaration with an extends clause.
ClassDeclarationExtends(name, extendsClause, members) ==
    [ClassDeclaration(name, members) EXCEPT !.extendsClause = extendsClause]
Member(kind, name, type, modifiers, parameters, returnType, body, metadata) ==
    [kind |-> kind, name |-> name, type |-> type, modifiers |-> modifiers,
     parameters |-> parameters, returnType |-> returnType, body |-> body,
     metadata |-> metadata]
PropertyMember(name, type, modifiers) ==
    Member("PropertyMember", name, type, modifiers, <<>>, NoType, <<>>, {})
MethodMember(name, parameters, returnType, body, modifiers) ==
    Member("MethodMember", name, NoType, modifiers, parameters, returnType, body, {})
\* A try statement: handler and finalizer hold one element when present.
CatchClause(param, body) == [param |-> param, body |-> body]
TryStatement(block, handler, finalizer) ==
    [kind |-> "TryStatement", block |-> block, handler |-> handler,
     finalizer |-> finalizer]

visitExpressionStatement(g, node) ==
    IF node.expression.k = "AssignmentExpression" THEN Out(<<>>, g)
    ELSE visitExpression(g, node.expression)

\* A return whose argument is no call expression.
visitReturnStatement(g, node) ==
    IF node.expression = NoExpr THEN Out(<<"return">>, g)
    ELSE IF node.expression.k = "UnaryExpression" /\ node.expression.name \in {"++", "--"}
    THEN Bind({
                 Out(argCode.out \o <<node.expression.name, "\n">> \o indent(argCode.g)
                         \o <<"return ">> \o argCode.out, argCode.g)
         : argCode \in {visitExpression(g, node.expression.args[1])}})
    ELSE Bind({Out(<<"return ">> \o argument.out, argument.g)
         : argument \in {visitExpression(g, node.expression)}})

\* A variable declaration without initializer.
visitVariableDeclaration(g, node) ==
    LET Defined(registered) == generateTupleTypeInline(registered.g, registered.out)
        Declared(tupleTypeDef) ==
            Bind({
                    Out(tupleTypeDef.out
                            \o <<"var ", exportName(node.name,
                                                    hasModifier(node.modifiers, "export")),
                                 " ">>
                            \o typeName.out, typeName.g)
            : typeName \in {IF node.type # NoType THEN visitType(tupleTypeDef.g, node.type)
                     ELSE Out(<<"interface{}">>, tupleTypeDef.g)}})
    IN Declared(IF node.type.k = "TupleType"
                THEN Defined(registerTupleType(g, node.type)) ELSE Out(<<>>, g))

\* Parameters that are neither optional nor rest parameters.
visitParameter(g, node) ==
    Bind({Out(<<node.name, " ">> \o type.out, type.g)
    : type \in {IF node.type # NoType THEN visitType(g, node.type)
             ELSE Out(<<"interface{}">>, g)}})

RECURSIVE visitParameters(_, _)
visitParameters(g, parameters) ==
    IF parameters = <<>> THEN Out(<<>>, g)
    ELSE Bind({
                 Bind({Out(<<first.out>> \o rest.out, rest.g)
                 : rest \in {visitParameters(first.g, Tail(parameters))}})
         : first \in {visitParameter(g, Head(parameters))}})

RECURSIVE BodyStatements(_, _)

\* visitBlockStatement: the statements of a block between braces
visitBlockStatement(g, statements) ==
    Bind({
            Out(<<"{\n">> \o body.out \o indent(decreaseIndent(body.g)) \o <<"}">>,
                decreaseIndent(body.g))
    : body \in {BodyStatements(increaseIndent(g), statements)}})

\* The deferred recover of the panic strategy: the text from
\* `defer func() {` to `}()`, written at the indent level of g
RecoverHandler(g, handler) ==
    Bind({
            Out(indent(g) \o <<"defer func() {\n">>
                    \o indent(increaseIndent(g)) \o <<"if r := recover(); r != nil {\n">>
                    \o (IF handler.param # ""
                        THEN indent(handlerBody.g) \o <<handler.param, " := r\n">>
                        ELSE <<>>)
                    \o indent(handlerBody.g) \o handlerBody.out \o <<"\n">>
                    \o indent(increaseIndent(g)) \o <<"}\n">>
                    \o indent(g) \o <<"}()\n">>,
                decreaseIndent(decreaseIndent(handlerBody.g)))
    : handlerBody \in {visitBlockStatement(increaseIndent(increaseIndent(g)),
                                           handler.body)}})

visitTryStatement(g, node) ==
    IF g.options.errorHandling = "panic"
    THEN Bind({
            Bind({
                    Bind({
                            Out(<<"func() {\n">> \o finalizer.out \o handler.out
                                    \o block.out \o <<"\n}()">>,
                                decreaseIndent(block.g))
                    : block \in {visitBlockStatement(handler.g, node.block)}})
            : handler \in {IF node.handler # <<>>
                           THEN RecoverHandler(finalizer.g, node.handler[1])
                           ELSE Out(<<>>, finalizer.g)}})
         : finalizer \in {IF node.finalizer # <<>>
                          THEN Bind({Out(indent(increaseIndent(g)) \o <<"defer func() ">>
                                             \o body.out \o <<"\n">>, body.g)
                               : body \in {visitBlockStatement(increaseIndent(g),
                                                               node.finalizer[1])}})
                          ELSE Out(<<>>, increaseIndent(g))}})
    ELSE Bind({Out(<<"// TODO: Convert try/catch to error handling\n">> \o block.out,
                   block.g)
         : block \in {visitBlockStatement(g, node.block)}})

\* stmt.accept(this) for a statement of a function body
visitBodyStatement(g, stmt) ==
    CASE stmt.kind = "ReturnStatement" -> visitReturnStatement(g, stmt)
      [] stmt.kind = "ExpressionStatement" -> visitExpressionStatement(g, stmt)
      [] stmt.kind = "VariableDeclaration" -> visitVariableDeclaration(g, stmt)
      [] stmt.kind = "TryStatement" -> visitTryStatement(g, stmt)

\* `${this.indent()}${stmtCode}\n` for every statement with non-empty code
BodyStatements(g, statements) ==
    IF statements = <<>> THEN Out(<<>>, g)
    ELSE Bind({
                 Bind({
                         Out((IF stmtCode.out # <<>>
                              THEN indent(stmtCode.g) \o stmtCode.out \o <<"\n">>
                              ELSE <<>>) \o rest.out, rest.g)
                 : rest \in {BodyStatements(stmtCode.g, Tail(statements))}})
         : stmtCode \in {visitBodyStatement(g, Head(statements))}})

\* A function declaration with a body, without type parameters and without
\* parameter default values.
visitFunctionDeclaration(g, node) ==
    LET isAsync == hasModifier(node.modifiers, "async")
        Params(params) ==
            LET paramText ==
                    IF isAsync
                    THEN <<"ctx context.Context">>
                            \o (IF params.out # <<>> THEN <<", ">> ELSE <<>>)
                            \o JoinWith(params.out, ", ")
                    ELSE JoinWith(params.out, ", ")
                Tested(probe) ==
                    LET hasReturn == node.returnType # NoType /\ probe.out # <<"">>
                        Return(again) ==
                            LET returnType ==
                                    IF hasReturn
                                    THEN (IF isAsync
                                          THEN <<"(">> \o again.out \o <<", error)">>
                                          ELSE again.out)
                                    ELSE IF isAsync THEN <<"error">> ELSE <<>>
                                Signed(signature) ==
                                    Bind({
                                            Out(signature \o <<" ", "{\n">> \o body.out
                                                    \o indent(decreaseIndent(body.g))
                                                    \o <<"}">>, decreaseIndent(body.g))
                                    : body \in {BodyStatements(increaseIndent(again.g), node.body)}})
                            IN Signed(<<"func ",
                                        exportName(node.name,
                                                   hasModifier(node.modifiers, "export")),
                                        "(">> \o paramText \o <<")">>
                                        \o (IF returnType # <<>>
                                            THEN <<" ">> \o returnType ELSE <<>>))
                    IN Return(IF hasReturn THEN visitType(probe.g, node.returnType)
                              ELSE probe)
                Context(g1) ==
                    Tested(IF node.returnType # NoType
                           THEN visitType(g1, node.returnType) ELSE Out(<<>>, g1))
            IN Context(IF isAsync
                       THEN addImport([params.g EXCEPT !.needsContext = TRUE], "context")
                       ELSE params.g)
    IN Params(visitParameters(g, node.parameters))

\* ------------------------------------------------------------- classes
\* str.length, on the identifiers of the bounded IR
StrLen(str) ==
    CASE str \in {"C", "t", "u", "d", "f", "g", "h", "p", "n"} -> 1
      [] str \in {"obj", "Box", "set", "Set", "has", "Has"} -> 3
      [] str \in {"count", "Count", "value", "Value"} -> 5
      [] str \in {"instance", "Instance"} -> 8
      [] OTHER -> 1

Max(a, b) == IF a >= b THEN a ELSE b

RECURSIVE MaxNameLen(_)
MaxNameLen(fields) ==
    IF fields = <<>> THEN 0 ELSE Max(StrLen(Head(fields).name), MaxNameLen(Tail(fields)))

\* field.name.padEnd(width)
padEnd(str, width) ==
    <<str>> \o [i \in 1..(IF width > StrLen(str) THEN width - StrLen(str) ELSE 0) |-> " "]

RECURSIVE PrivateInstanceFields(_)
\* the names visitClassDeclaration adds to privateFieldNames
PrivateInstanceFields(members) ==
    IF members = <<>> THEN {}
    ELSE (IF /\ Head(members).kind = "PropertyMember"
             /\ ~hasModifier(Head(members).modifiers, "static")
             /\ hasModifier(Head(members).modifiers, "private")
          THEN {Head(members).name} ELSE {})
         \cup PrivateInstanceFields(Tail(members))

InstanceProperties(members) ==
    SeqFilter(members, {m \in Range(members) :
        m.kind = "PropertyMember" /\ ~hasModifier(m.modifiers, "static")})

RECURSIVE FieldInfos(_, _)
\* first pass over the instance properties: {name, type} of every field
FieldInfos(g, properties) ==
    IF properties = <<>> THEN Out(<<>>, g)
    ELSE Bind({
                 Bind({
                         Out(<<[name |-> IF hasModifier(Head(properties).modifiers, "private")
                                         THEN Head(properties).name
                                         ELSE capitalize(Head(properties).name),
                                type |-> typeName.out]>> \o rest.out, rest.g)
                 : rest \in {FieldInfos(typeName.g, Tail(properties))}})
         : typeName \in {IF Head(properties).type # NoType
                  THEN visitType(g, Head(properties).type)
                  ELSE Out(<<"interface{}">>, g)}})

RECURSIVE FieldLines(_, _, _, _)
\* second pass: one line per field, aligned when there are several
FieldLines(g, fields, count, paddingWidth) ==
    IF fields = <<>> THEN <<>>
    ELSE (IF count = 1
          THEN indent(g) \o <<Head(fields).name, " ">> \o Head(fields).type \o <<"\n">>
          ELSE indent(g) \o padEnd(Head(fields).name, paddingWidth)
                   \o Head(fields).type \o <<"\n">>)
         \o FieldLines(g, Tail(fields), count, paddingWidth)

\* str.toLowerCase(), on the identifiers of the bounded IR
toLowerCase(str) ==
    CASE str = "C" -> "c"
      [] str = "D" -> "d"
      [] str = "Box" -> "box"
      [] OTHER -> str

\* className.charAt(0).toLowerCase()
receiverNameOf(className) ==
    CASE className = "C" -> "c"
      [] className = "D" -> "d"
      [] className = "Box" -> "b"
      [] OTHER -> className

RECURSIVE visitExpressionStatic(_, _, _)
\* visitExpressionStatic: an expression in the body of a static method.  The
\* property of a member access is an Identifier and a new-expression has no
\* arguments in the bounded IR.
visitExpressionStatic(g, className, expr) ==
    CASE expr.k = "MemberExpression" ->
            IF expr.args[1].k = "Identifier" /\ expr.args[1].name = className
            THEN Out(<<toLowerCase(className), capitalize(expr.args[2].name)>>, g)
            ELSE Bind({
                         Out(obj.out \o <<".", capitalize(expr.args[2].name)>>, obj.g)
                 : obj \in {visitExpressionStatic(g, className, expr.args[1])}})
      [] expr.k = "UnaryExpression" ->
            Bind({
                    IF expr.name = "!" /\ expr.args[1].k = "MemberExpression"
                    THEN Out(argTransformed.out \o <<" == nil">>, argTransformed.g)
                    ELSE Out(<<expr.name>> \o argTransformed.out, argTransformed.g)
            : argTransformed \in {visitExpressionStatic(g, className, expr.args[1])}})
      [] expr.k = "NewExpression" ->
            Bind({
                    IF callee.out = <<className>>
                    THEN Out(<<"&">> \o callee.out \o <<"{count: 0}">>, callee.g)
                    ELSE Out(<<"&">> \o callee.out \o <<"{", "}">>, callee.g)
            : callee \in {visitExpression(g, expr.args[1])}})
      [] expr.k = "BinaryExpression" ->
            Bind({
                    Bind({
                            Out(left.out
                                    \o <<" ",
                                         IF expr.name = "===" THEN "=="
                                         ELSE IF expr.name = "!==" THEN "!="
                                         ELSE expr.name,
                                         " ">>
                                    \o right.out, right.g)
                    : right \in {visitExpressionStatic(left.g, className, expr.args[2])}})
            : left \in {visitExpressionStatic(g, className, expr.args[1])}})
      [] expr.k = "AssignmentExpression" ->
            Bind({
                    Bind({
                            Out(left.out \o <<" ", expr.name, " ">> \o right.out, right.g)
                    : right \in {visitExpressionStatic(left.g, className, expr.args[2])}})
            : left \in {visitExpressionStatic(g, className, expr.args[1])}})
      [] expr.k = "Identifier" ->
            IF expr.name \in {"undefined", "nil"} THEN Out(<<"nil">>, g)
            ELSE Out(<<expr.name>>, g)
      [] expr.k = "Literal" -> Out(<<expr.name>>, g)
      [] OTHER -> visitExpression(g, expr)

visitExpressionStatementStatic(g, className, node) ==
    visitExpressionStatic(g, className, node.expression)

visitReturnStatementStatic(g, className, node) ==
    IF node.expression = NoExpr THEN Out(<<"return">>, g)
    ELSE Bind({Out(<<"return ">> \o argument.out, argument.g)
         : argument \in {visitExpressionStatic(g, className, node.expression)}})

\* visitStatementStatic; the bounded IR has no if statement.
visitStatementStatic(g, className, stmt) ==
    CASE stmt.kind = "ExpressionStatement" ->
            visitExpressionStatementStatic(g, className, stmt)
      [] stmt.kind = "ReturnStatement" -> visitReturnStatementStatic(g, className, stmt)
      [] OTHER -> visitBodyStatement(g, stmt)

RECURSIVE StaticStatements(_, _, _)
\* `${this.indent()}${stmtCode}\n` for every statement with non-empty code
StaticStatements(g, className, statements) ==
    IF statements = <<>> THEN Out(<<>>, g)
    ELSE Bind({
                 Bind({
                         Out((IF stmtCode.out # <<>>
                              THEN indent(stmtCode.g) \o stmtCode.out \o <<"\n">>
                              ELSE <<>>) \o rest.out, rest.g)
                 : rest \in {StaticStatements(stmtCode.g, className, Tail(statements))}})
         : stmtCode \in {visitStatementStatic(g, className, Head(statements))}})

visitBlockStatementStatic(g, className, statements) ==
    Bind({
            Out(<<"{\n">> \o body.out \o indent(decreaseIndent(body.g)) \o <<"}">>,
                decreaseIndent(body.g))
    : body \in {StaticStatements(increaseIndent(g), className, statements)}})

\* The text between `func name(` ... and the body: parameters and return
\* type of a method (neither async nor generic in the bounded IR).
MethodSignature(g, node, className, isStaticMethod) ==
    Bind({
            Bind({
                    LET hasReturn == node.returnType # NoType /\ probe.out # <<"">>
                        Return(again) ==
                            Out(JoinWith(params.out, ", ") \o <<")">>
                                    \o (IF hasReturn
                                        THEN <<" ">>
                                                \o (IF isStaticMethod
                                                       /\ again.out = <<className>>
                                                    THEN <<"*">> ELSE <<>>)
                                                \o again.out
                                        ELSE <<>>),
                                again.g)
                    IN Return(IF hasReturn THEN visitType(probe.g, node.returnType)
                              ELSE probe)
            : probe \in {IF node.returnType # NoType
                      THEN visitType(params.g, node.returnType)
                      ELSE Out(<<>>, params.g)}})
    : params \in {visitParameters(g, node.parameters)}})

\* generateMethod, for an instance method
generateMethod(g, className, node) ==
    IF node.name = "constructor" THEN Out(<<>>, g)
    ELSE Bind({
                 Bind({
                         Out(<<"func ", "(", receiverNameOf(className), " ", "*", className,
                               ") ",
                               exportName(node.name,
                                          ~hasModifier(node.modifiers, "private")),
                               "(">>
                                 \o signature.out \o <<" ">> \o body.out,
                             [body.g EXCEPT !.currentReceiverName = ""])
                 : body \in {visitBlockStatement(signature.g, node.body)}})
         : signature \in {MethodSignature(
                     [g EXCEPT !.currentReceiverName = receiverNameOf(className)],
                     node, className, FALSE)}})

\* methodName.replace(/^Get/, '')
withoutGetPrefix(methodName) ==
    CASE methodName = "GetInstance" -> "Instance"
      [] OTHER -> methodName

generateStaticMethod(g, className, node) ==
    Bind({
            Bind({
                    Out(<<"func ", "Get", className,
                          withoutGetPrefix(capitalize(node.name)), "(">>
                            \o signature.out \o <<" ">> \o body.out, body.g)
            : body \in {visitBlockStatementStatic(signature.g, className, node.body)}})
    : signature \in {MethodSignature(g, node, className, TRUE)}})

\* The right-hand side of the last `this.propName = ...` statement of a
\* constructor body (bodyInitializations), or NoExpr.
RECURSIVE bodyInitialization(_, _)
bodyInitialization(statements, propName) ==
    IF statements = <<>> THEN NoExpr
    ELSE LET stmt == statements[Len(statements)]
         IN IF /\ stmt.kind = "ExpressionStatement"
               /\ stmt.expression.k = "AssignmentExpression"
               /\ stmt.expression.args[1].k = "MemberExpression"
               /\ stmt.expression.args[1].args[1] = Identifier("this")
               /\ stmt.expression.args[1].args[2].k = "Identifier"
               /\ stmt.expression.args[1].args[2].name = propName
            THEN stmt.expression.args[2]
            ELSE bodyInitialization(SubSeq(statements, 1, Len(statements) - 1), propName)

RECURSIVE ConstructorParameters(_, _)
\* allParams of a constructor without super() call: `${paramName} ${typeName}`
ConstructorParameters(g, constructorParams) ==
    IF constructorParams = <<>> THEN Out(<<>>, g)
    ELSE Bind({
                 Bind({
                         Out(<<<<IF hasModifier(Head(constructorParams).modifiers, "private")
                                 THEN Head(constructorParams).name
                                 ELSE toLowerCase(Head(constructorParams).name), " ">>
                                 \o typeName.out>> \o rest.out, rest.g)
                 : rest \in {ConstructorParameters(typeName.g, Tail(constructorParams))}})
         : typeName \in {IF Head(constructorParams).type # NoType
                  THEN visitType(g, Head(constructorParams).type)
                  ELSE Out(<<"interface{}">>, g)}})

\* fieldName of a property in the struct and in the factory
fieldNameOf(prop) ==
    IF hasModifier(prop.modifiers, "private") THEN prop.name ELSE capitalize(prop.name)

RECURSIVE FieldInitializers(_, _, _, _)
\* the `Field: value,` lines of the factory's composite literal
FieldInitializers(g, properties, constructorBody, initPaddingWidth) ==
    IF properties = <<>> THEN Out(<<>>, g)
    ELSE LET prop == Head(properties)
             paddedName ==
                 <<fieldNameOf(prop), ":">>
                    \o [i \in 1..(initPaddingWidth - StrLen(fieldNameOf(prop)) - 1) |-> " "]
             Valued(value) ==
                 Bind({
                         Out((IF value.out # <<>>
                              THEN indent(increaseIndent(increaseIndent(g)))
                                      \o paddedName \o value.out \o <<",\n">>
                              ELSE <<>>) \o rest.out, rest.g)
                 : rest \in {FieldInitializers(value.g, Tail(properties), constructorBody,
                                           initPaddingWidth)}})
         IN Valued(IF "isConstructorParam" \in prop.metadata
                   THEN Out(<<IF hasModifier(prop.modifiers, "private") THEN prop.name
                              ELSE toLowerCase(prop.name)>>, g)
                   ELSE IF bodyInitialization(constructorBody, prop.name) # NoExpr
                   THEN visitExpression(g, bodyInitialization(constructorBody, prop.name))
                   ELSE Out(<<>>, g))

\* the constructor method of a class: <<member>>, or <<>> when it has none
constructorMethodOf(node) ==
    SeqFilter(node.members, {m \in Range(node.members) :
        m.kind = "MethodMember" /\ m.name = "constructor"})

\* generateConstructor.  Constructor bodies of the bounded IR hold no
\* super() call and properties have no initializer.
generateConstructor(g, className, node) ==
    LET properties == InstanceProperties(node.members)
        constructorParams ==
            SeqFilter(properties, {p \in Range(properties) :
                                      "isConstructorParam" \in p.metadata})
        constructorBody ==
            IF constructorMethodOf(node) = <<>> THEN <<>>
            ELSE constructorMethodOf(node)[1].body
    IN IF /\ Len(constructorParams) = 0
          /\ constructorMethodOf(node) = <<>>
          /\ node.extendsClause = NoType
       THEN Out(<<>>, g)
       ELSE IF Len(properties) = 0 THEN Out(<<>>, g)
       ELSE Bind({
                    Bind({
                            Out(<<"func ", "New", className, "(">>
                                    \o JoinWith(allParams.out, ", ")
                                    \o <<") *", className, " {\n">>
                                    \o indent(inits.g) \o <<"\treturn &", className, "{\n">>
                                    \o inits.out
                                    \o indent(inits.g) \o <<"\t}\n">>
                                    \o indent(inits.g) \o <<"}">>,
                                inits.g)
                    : inits \in {FieldInitializers(
                                      allParams.g, properties, constructorBody,
                                      Max(MaxNameLen([i \in 1..Len(properties) |->
                                              [name |-> fieldNameOf(properties[i])]]) + 2,
                                          11))}})
            : allParams \in {ConstructorParameters(g, constructorParams)}})

StaticProperties(members) ==
    SeqFilter(members, {m \in Range(members) :
        m.kind = "PropertyMember" /\ hasModifier(m.modifiers, "static")})

StaticMethods(members) ==
    SeqFilter(members, {m \in Range(members) :
        m.kind = "MethodMember" /\ hasModifier(m.modifiers, "static")})

InstanceMethods(members) ==
    SeqFilter(members, {m \in Range(members) :
        m.kind = "MethodMember" /\ ~hasModifier(m.modifiers, "static")})

\* the embedding line of the extends clause
Embedding(g, node) ==
    IF node.extendsClause = NoType THEN Out(<<>>, g)
    ELSE Bind({
                 Out(indent(increaseIndent(parent.g)) \o parent.out \o <<"\n">>, parent.g)
         : parent \in {visitType(g, node.extendsClause)}})

RECURSIVE StaticPropertyLines(_, _, _)
\* `var ${varName} *${name}\n` for every static property; the property's
\* type is visited and its text discarded
StaticPropertyLines(g, name, staticProperties) ==
    IF staticProperties = <<>> THEN Out(<<>>, g)
    ELSE Bind({
                 Bind({
                         Out(<<"var ", toLowerCase(name),
                               capitalize(Head(staticProperties).name), " *", name, "\n">>
                                 \o rest.out, rest.g)
                 : rest \in {StaticPropertyLines(typeName.g, name, Tail(staticProperties))}})
         : typeName \in {IF Head(staticProperties).type # NoType
                  THEN visitType(g, Head(staticProperties).type)
                  ELSE Out(<<"interface{}">>, g)}})

RECURSIVE StaticMethodsCode(_, _, _, _)
StaticMethodsCode(g, name, staticMethods, hasInstanceMethods) ==
    IF staticMethods = <<>> THEN Out(<<>>, g)
    ELSE Bind({
                 Bind({
                         Out(<<"\n\n">> \o method.out
                                 \o (IF Len(staticMethods) > 1 \/ hasInstanceMethods
                                     THEN <<"\n">> ELSE <<>>)
                                 \o rest.out, rest.g)
                 : rest \in {StaticMethodsCode(method.g, name, Tail(staticMethods),
                                           hasInstanceMethods)}})
         : method \in {generateStaticMethod(g, name, Head(staticMethods))}})

RECURSIVE InstanceMethodsCode(_, _, _)
InstanceMethodsCode(g, name, instanceMethods) ==
    IF instanceMethods = <<>> THEN Out(<<>>, g)
    ELSE Bind({
                 Bind({Out(<<"\n\n">> \o method.out \o rest.out, rest.g)
                 : rest \in {InstanceMethodsCode(method.g, name, Tail(instanceMethods))}})
         : method \in {generateMethod(g, name, Head(instanceMethods))}})

\* the text after the struct: static properties, factory, static methods and
\* instance methods
ClassTail(g, name, node) ==
    Bind({
            Bind({
                    Bind({
                            Bind({
                                    Out((IF statics.out # <<>>
                                         THEN <<"\n\n">> \o statics.out ELSE <<>>)
                                          \o (IF constructor.out # <<>>
                                              THEN <<"\n\n">> \o constructor.out
                                                     \o (IF \/ InstanceMethods(node.members) # <<>>
                                                            \/ StaticMethods(node.members) # <<>>
                                                         THEN <<"\n">> ELSE <<>>)
                                              ELSE <<>>)
                                          \o staticM.out \o instanceM.out,
                                        instanceM.g)
                            : instanceM \in {InstanceMethodsCode(staticM.g, name,
                                                             InstanceMethods(node.members))}})
                    : staticM \in {StaticMethodsCode(constructor.g, name,
                                                 StaticMethods(node.members),
                                                 InstanceMethods(node.members) # <<>>)}})
            : constructor \in {generateConstructor(statics.g, name, node)}})
    : statics \in {StaticPropertyLines(g, name, StaticProperties(node.members))}})

\* visitClassDeclaration, for a class without type parameters whose
\* properties have no initializer
visitClassDeclaration(g, node) ==
    Bind({
            Bind({
                    Bind({
                            Bind({
                                    Bind({
                                            Out(<<"type ", name, " struct {\n">>
                                                    \o embedding.out
                                                    \o FieldLines(fields.g, fields.out,
                                                                  Len(fields.out),
                                                                  paddingWidth)
                                                    \o <<"}">> \o tail.out,
                                                tail.g)
                                    : tail \in {ClassTail(decreaseIndent(fields.g), name, node)}})
                            : paddingWidth \in {IF Len(fields.out) = 1 THEN 0
                                      ELSE Max(MaxNameLen(fields.out) + 1, 10)}})
                    : fields \in {FieldInfos(increaseIndent(embedding.g),
                                         InstanceProperties(node.members))}})
            : embedding \in {Embedding([g EXCEPT !.currentClassName = name,
                                            !.privateFieldNames =
                                                PrivateInstanceFields(node.members),
                                            !.fieldTypeMap = {}],
                                  node)}})
    : name \in {exportName(node.name, hasModifier(node.modifiers, "export"))}})

\* ------------------------------------------------------------- imports
\* UTF-16 code units of the package names the generator imports.
CodeUnits(pkg) ==
    CASE pkg = "context" -> <<99, 111, 110, 116, 101, 120, 116>>
      [] pkg = "fmt" -> <<102, 109, 116>>
      [] pkg = "reflect" -> <<114, 101, 102, 108, 101, 99, 116>>
      [] pkg = "time" -> <<116, 105, 109, 101>>

RECURSIVE UnitsLess(_, _)
UnitsLess(a, b) ==
    IF b = <<>> THEN FALSE
    ELSE IF a = <<>> THEN TRUE
    ELSE IF Head(a) # Head(b) THEN Head(a) < Head(b)
    ELSE UnitsLess(Tail(a), Tail(b))

\* the order of Array.prototype.sort() without a comparator
StringLess(a, b) == UnitsLess(CodeUnits(a), CodeUnits(b))

RECURSIVE InsertSorted(_, _)
InsertSorted(sorted, x) ==
    IF sorted = <<>> THEN <<x>>
    ELSE IF StringLess(x, Head(sorted)) THEN <<x>> \o sorted
    ELSE <<Head(sorted)>> \o InsertSorted(Tail(sorted), x)

RECURSIVE sort(_)
sort(list) == IF list = <<>> THEN <<>> ELSE InsertSorted(sort(Tail(list)), Head(list))

\* generateImports without the sort: the packages in insertion order.
generateImports_unsorted(g) ==
    IF Len(g.imports) = 0 THEN <<>>
    ELSE IF Len(g.imports) = 1 THEN <<"import ", "\"", g.imports[1], "\"", "\n\n">>
    ELSE <<"import (\n">>
            \o JoinWith([i \in 1..Len(g.imports) |-> <<"\t", "\"", g.imports[i], "\"">>], "\n")
            \o <<"\n)\n\n">>

generateImports(g) ==
    LET Block(importList) ==
            IF Len(importList) = 1
            THEN <<"import ", "\"", importList[1], "\"", "\n\n">>
            ELSE <<"import (\n">>
                    \o JoinWith([i \in 1..Len(importList) |->
                                    <<"\t", "\"", importList[i], "\"">>], "\n")
                    \o <<"\n)\n\n">>
    IN IF Len(g.imports) = 0 THEN <<>> ELSE Block(sort(g.imports))

\* -------------------------------------------------------------- module
\* Fragments that end in a line break / that hold a blank line.
EndsWithNewline(fragment) ==
    fragment \in {"\n", "\n\n", "}\n\n", "{\n", " struct {\n", "package main\n\n",
                  "\n)\n\n", "import (\n"}

ContainsBlankLine(fragment) ==
    fragment \in {"\n\n", "}\n\n", "package main\n\n", "\n)\n\n"}

\* code.includes('\n\n')
includesBlankLine(text) == \E i \in 1..Len(text) : ContainsBlankLine(text[i])

\* willBeSkipped of visitModule's first pass
isSkippedStatement(stmt) ==
    stmt.kind = "ExpressionStatement" /\ stmt.expression.k = "AssignmentExpression"

\* stmt.accept(this) for a top-level statement
visitStatement(g, stmt) ==
    CASE stmt.kind = "VariableDeclaration" -> visitVariableDeclaration(g, stmt)
      [] stmt.kind = "FunctionDeclaration" -> visitFunctionDeclaration(g, stmt)
      [] stmt.kind = "ClassDeclaration" -> visitClassDeclaration(g, stmt)
      [] stmt.kind = "ExpressionStatement" -> visitExpressionStatement(g, stmt)
      [] stmt.kind = "ReturnStatement" -> visitReturnStatement(g, stmt)

declType(stmt) ==
    CASE stmt.kind = "VariableDeclaration" -> "var"
      [] stmt.kind = "FunctionDeclaration" -> "func"
      [] stmt.kind \in {"ClassDeclaration", "InterfaceDeclaration",
                        "TypeAliasDeclaration", "EnumDeclaration"} -> "type"
      [] OTHER -> "other"

RECURSIVE Declarations_everyStatement(_, _, _)
\* A second pass that skips nothing and emits the expression of every
\* expression statement.
Declarations_everyStatement(g, statements, i) ==
    IF i > Len(statements) THEN Out(<<>>, g)
    ELSE Bind({
                 Bind({
                         IF stmtCode.out = <<>> THEN rest
                         ELSE Out(<<[code |-> stmtCode.out,
                                     type |-> declType(statements[i]),
                                     originalIndex |-> i,
                                     hadSkippedAfter |-> FALSE]>>
                                     \o rest.out, rest.g)
                 : rest \in {Declarations_everyStatement(stmtCode.g, statements, i + 1)}})
         : stmtCode \in {IF statements[i].kind = "ExpressionStatement"
                         THEN visitExpression(g, statements[i].expression)
                         ELSE visitStatement(g, statements[i])}})

RECURSIVE Declarations(_, _, _)
\* visitModule's second pass from statement i on: the DeclInfo list.
Declarations(g, statements, i) ==
    IF i > Len(statements) THEN Out(<<>>, g)
    ELSE IF isSkippedStatement(statements[i]) THEN Declarations(g, statements, i + 1)
    ELSE Bind({
                 Bind({
                         IF stmtCode.out = <<>> THEN rest
                         ELSE Out(<<[code |-> stmtCode.out,
                                     type |-> declType(statements[i]),
                                     originalIndex |-> i,
                                     hadSkippedAfter |->
                                         i < Len(statements)
                                             /\ isSkippedStatement(statements[i + 1])]>>
                                     \o rest.out, rest.g)
                 : rest \in {Declarations(stmtCode.g, statements, i + 1)}})
         : stmtCode \in {visitStatement(g, statements[i])}})

\* The explicit type the grouping regular expression finds in a simple
\* variable declaration `var name type`, and the tests made on it.
ExplicitType(declCode) == SubSeq(declCode, 4, Len(declCode))

IsScalar(declCode) ==
    /\ Len(ExplicitType(declCode)) = 1
    /\ ExplicitType(declCode)[1] \in {"string", "float64", "bool", "int", "interface{}"}

\* /any|unknown/i.test(name), on the identifiers of the bounded IR
LooksAnyUnknown(name) == name \in {"anyValue", "unknownValue"}

IsAnyUnknown(declCode) ==
    LooksAnyUnknown(declCode[2]) /\ ExplicitType(declCode) = <<"interface{}">>

\* The separator visitModule's third pass puts between two declarations.
Spacing(decl, nextDecl) ==
    LET isCurrentSimpleVar == decl.type = "var" /\ ~includesBlankLine(decl.code)
        isNextSimpleVar == nextDecl.type = "var" /\ ~includesBlankLine(nextDecl.code)
    IN IF decl.hadSkippedAfter THEN "\n\n"
       ELSE IF decl.type # nextDecl.type THEN "\n\n"
       ELSE IF decl.type \in {"func", "type"} THEN "\n\n"
       ELSE IF isCurrentSimpleVar # isNextSimpleVar THEN "\n\n"
       ELSE IF ~isCurrentSimpleVar /\ ~isNextSimpleVar THEN "\n\n"
       ELSE IF isCurrentSimpleVar /\ isNextSimpleVar
       THEN (IF IsAnyUnknown(decl.code) \/ IsAnyUnknown(nextDecl.code) THEN "\n\n"
             ELSE IF IsScalar(decl.code) /\ IsScalar(nextDecl.code) THEN "\n"
             ELSE "\n\n")
       ELSE "\n"

RECURSIVE Spaced_lastFirst(_, _)
\* A third pass that writes the declarations from the last one to the first.
Spaced_lastFirst(declarations, i) ==
    IF i > Len(declarations) THEN <<>>
    ELSE Spaced_lastFirst(declarations, i + 1)
            \o (IF i < Len(declarations)
                THEN <<Spacing(declarations[i], declarations[i + 1])>> ELSE <<>>)
            \o declarations[i].code

RECURSIVE Spaced(_, _)
\* visitModule's third pass from declaration i on.
Spaced(declarations, i) ==
    IF i > Len(declarations) THEN <<>>
    ELSE declarations[i].code
            \o (IF i < Len(declarations)
                THEN <<Spacing(declarations[i], declarations[i + 1])>> ELSE <<>>)
            \o Spaced(declarations, i + 1)

visitModule(g, statements) ==
    Bind({
            Bind({
                    Out(IF EndsWithNewline(result[Len(result)]) THEN result
                        ELSE result \o <<"\n">>, declarations.g)
            : result \in {<<"package main\n\n">> \o generateImports(declarations.g)
                           \o Spaced(declarations.out, 1)}})
    : declarations \in {Declarations(g, statements, 1)}})

\* generate: reset, then visitModule
generate(g, statements) == visitModule(reset(g), statements)

\* ---------------------------------------------- bounded modules (emitter)
\* Longest top-level statement list of a module handed to the generator.
MaxEmitStmts == 2
\* Number of generate calls on one GoCodeGenerator instance.
MaxRuns == 2

StringNumber == TupleType(<<PrimitiveType("string"), PrimitiveType("number")>>)

EmitStatements ==
    {VariableDeclaration("t", StringNumber),
     VariableDeclaration("u", StringNumber),
     FunctionDeclaration("f", {}, <<Parameter("p", StringNumber)>>, NoType,
                         <<ReturnStatement(Identifier("p"))>>),
     FunctionDeclaration("g", {"async"}, <<Parameter("d", TypeReference("Date", <<>>))>>,
                         PrimitiveType("number"),
                         <<ReturnStatement(UnaryExpression("typeof", Identifier("n")))>>),
     FunctionDeclaration("h", {}, <<>>, NoType,
                         <<ReturnStatement(MemberExpression(Identifier("obj"),
                                                            Identifier("count")))>>),
     ClassDeclaration("C", <<PropertyMember("count", PrimitiveType("number"), {"private"})>>),
     ExpressionStatement(AssignmentExpression("=", Identifier("n"), Literal("1")))}

\* Modules whose top-level statements are pairwise different (top-level
\* names are unique within a module).
RECURSIVE EmitModulesOfLen(_)
EmitModulesOfLen(n) ==
    IF n = 0 THEN {<<>>}
    ELSE {Append(m, s) : m \in EmitModulesOfLen(n - 1), s \in EmitStatements}

EmitModules ==
    {m \in UNION {EmitModulesOfLen(n) : n \in 0..MaxEmitStmts} :
        \A i, j \in 1..Len(m) : i # j => m[i] # m[j]}

\* ------------------------------------------------------------ SpecEmit
InitEmit ==
    /\ gen = NewGenerator
    /\ code = <<>>
    /\ lastModule = <<>>
    /\ runs = 0
    /\ module = <<>>
    /\ input = <<>>
    /\ passes = 0
    /\ OptimizerIdle
    /\ CliIdle

\* this.generator.generate(m) on the compiler's one generator instance
Generate ==
    /\ runs < MaxRuns
    /\ \E m \in EmitModules :
        \E generated \in {generate(gen, m)} :
            /\ code' = generated.out
            /\ gen' = generated.g
            /\ lastModule' = m
    /\ runs' = runs + 1
    /\ UNCHANGED dceVars
    /\ UNCHANGED optVars
    /\ UNCHANGED cliVars

NextEmit == Generate

SpecEmit == InitEmit /\ [][NextEmit]_vars

\* ------------------------------------------------- claims on the emitter
\* Number of places where pattern occurs in text.
Occurrences(text, pattern) ==
    Cardinality({i \in 1..Len(text) :
        /\ i + Len(pattern) - 1 <= Len(text)
        /\ SubSeq(text, i, i + Len(pattern) - 1) = pattern})

RECURSIVE TupleTypesIn(_)
\* The tuple types that occur in a type, the type itself included.
TupleTypesIn(type) ==
    (IF type.k = "TupleType" THEN {type} ELSE {})
        \cup UNION {TupleTypesIn(type.elems[i]) : i \in 1..Len(type.elems)}

\* The tuple types that occur anywhere in a statement.
TupleTypesOf(stmt) ==
    TupleTypesIn(stmt.type) \cup TupleTypesIn(stmt.returnType)
        \cup UNION {TupleTypesIn(stmt.parameters[i].type) : i \in 1..Len(stmt.parameters)}
        \cup UNION {TupleTypesIn(stmt.members[i].type) : i \in 1..Len(stmt.members)}

TupleTypesOfModule(statements) ==
    UNION {TupleTypesOf(statements[i]) : i \in 1..Len(statements)}

\* The first line of the record definition of a tuple type.
RecordHeader(tuple) ==
    <<"type ">> \o generateTupleTypeName(NewGenerator, tuple).out \o <<" struct {\n">>

\* The packages the import block of a compilation unit lists, in order.
RECURSIVE ImportedFrom(_, _)
ImportedFrom(text, i) ==
    IF i + 2 > Len(text) \/ text[i] \notin {"\"", "\t", "\n"} THEN <<>>
    ELSE IF text[i] = "\"" /\ text[i + 2] = "\""
    THEN <<text[i + 1]>> \o ImportedFrom(text, i + 3)
    ELSE ImportedFrom(text, i + 1)

ImportedPackages(text) ==
    IF Len(text) >= 2 /\ text[2] \in {"import ", "import (\n"}
    THEN ImportedFrom(text, 3) ELSE <<>>

\* C6: generating the same module twice in succession on one generator
\* instance returns the same code both times.
C6_SameModuleSameCode ==
    [][(runs >= 1 /\ runs' = runs + 1 /\ lastModule' = lastModule) => code' = code]_vars

\* C7: the code of a module generated after any other module on the same
\* generator instance is the code a freshly constructed generator
\* returns for it.
C7_AsOnFreshGenerator ==
    runs >= 1 => code = generate(NewGenerator, lastModule).out

\* C8: every tuple type that occurs anywhere in the module (variable type,
\* parameter type, return type, property type, nested in another type) has
\* exactly one record definition in the code generated for the module.
C8_EveryTupleTypeDefinedOnce ==
    runs >= 1 =>
        \A tuple \in TupleTypesOfModule(lastModule) :
            Occurrences(code, RecordHeader(tuple)) = 1

\* C9: within one generate call the record definition of an interned tuple
\* name is emitted at most once; later variable declarations of the same
\* tuple shape reuse the name.
C9_TupleDefinitionAtMostOnce ==
    runs >= 1 =>
        \A tuple \in TupleTypesOfModule(lastModule) :
            Occurrences(code, RecordHeader(tuple)) <= 1

\* Two variable declarations of one tuple shape were generated: one
\* definition, and the second declaration names the type.
C9_Witness ==
    /\ runs >= 1
    /\ Len(lastModule) = 2
    /\ \A i \in 1..2 : lastModule[i].kind = "VariableDeclaration"
                        /\ lastModule[i].type = StringNumber
    /\ Occurrences(code, RecordHeader(StringNumber)) = 1
    /\ \A i \in 1..2 :
        Occurrences(code, <<"var ", lastModule[i].name, " ">>
                            \o generateTupleTypeName(NewGenerator, StringNumber).out) = 1

\* C10: every package in the generator's import set after the module's
\* statements were visited, the last one included, is listed exactly once
\* in the import block, and the block is in ascending order.
C10_ImportBlockSortedComplete ==
    runs >= 1 =>
        LET listed == ImportedPackages(code)
        IN /\ \A i \in 1..Len(gen.imports) :
                Cardinality({j \in 1..Len(listed) : listed[j] = gen.imports[i]}) = 1
           /\ \A j \in 1..Len(listed) : listed[j] \in Range(gen.imports)
           /\ \A i, j \in 1..Len(listed) : i < j => StringLess(listed[i], listed[j])

\* The last statement of the module added a package, and the packages were
\* recorded in an order that is not the ascending one.
C10_Witness ==
    /\ runs >= 1
    /\ Len(lastModule) >= 1
    /\ generate(NewGenerator, SubSeq(lastModule, 1, Len(lastModule) - 1)).g.imports
          # generate(NewGenerator, lastModule).g.imports
    /\ \E i, j \in 1..Len(gen.imports) : i < j /\ StringLess(gen.imports[j], gen.imports[i])
    /\ Len(ImportedPackages(code)) = Len(gen.imports)

\* ------------------------------------------ bounded modules (classes)
ThisValueIsValue ==
    ExpressionStatement(AssignmentExpression("=",
        MemberExpression(Identifier("this"), Identifier("value")), Identifier("value")))

CInstance == MemberExpression(Identifier("C"), Identifier("instance"))

\* function f() { return a === b }
FunctionStrictEquals ==
    FunctionDeclaration("f", {}, <<>>, NoType,
        <<ReturnStatement(BinaryExpression("===", Identifier("a"), Identifier("b")))>>)

\* function h() { n = 1 }
FunctionAssigns ==
    FunctionDeclaration("h", {}, <<>>, NoType,
        <<ExpressionStatement(AssignmentExpression("=", Identifier("n"), Literal("1")))>>)

\* class C { private static instance: C;
\*           static getInstance(): C { C.instance = new C(); return C.instance }
\*           static has(): boolean { return C.instance !== undefined } }
ClassSingleton ==
    ClassDeclaration("C",
        <<PropertyMember("instance", TypeReference("C", <<>>), {"private", "static"}),
          MethodMember("getInstance", <<>>, TypeReference("C", <<>>),
                       <<ExpressionStatement(AssignmentExpression("=", CInstance,
                             NewExpression(Identifier("C")))),
                         ReturnStatement(CInstance)>>,
                       {"static"}),
          MethodMember("has", <<>>, PrimitiveType("boolean"),
                       <<ReturnStatement(BinaryExpression("!==", CInstance,
                                                          Identifier("undefined")))>>,
                       {"static"})>>)

\* class Box { value: number;
\*             constructor(value: number) { this.value = value }
\*             set(value: number) { this.value = value } }
ClassBox ==
    ClassDeclaration("Box",
        <<PropertyMember("value", PrimitiveType("number"), {}),
          MethodMember("constructor", <<Parameter("value", PrimitiveType("number"))>>,
                       NoType, <<ThisValueIsValue>>, {}),
          MethodMember("set", <<Parameter("value", PrimitiveType("number"))>>,
                       NoType, <<ThisValueIsValue>>, {})>>)

\* class D extends Box { }
ClassDerived == ClassDeclarationExtends("D", TypeReference("Box", <<>>), <<>>)

\* class E { constructor() { n = 1 } }
ClassConstructorOnly ==
    ClassDeclaration("E",
        <<MethodMember("constructor", <<>>, NoType,
                       <<ExpressionStatement(AssignmentExpression("=", Identifier("n"),
                                                                  Literal("1")))>>,
                       {})>>)

\* class G { count: number }
ClassPlain == ClassDeclaration("G", <<PropertyMember("count", PrimitiveType("number"), {})>>)

\* function k() { return new G() }
FunctionNewG ==
    FunctionDeclaration("k", {}, <<>>, NoType,
                        <<ReturnStatement(NewExpression(Identifier("G")))>>)

ClassStatements ==
    {FunctionStrictEquals, FunctionAssigns, ClassSingleton, ClassBox, ClassDerived,
     ClassConstructorOnly, ClassPlain, FunctionNewG}

RECURSIVE ClassModulesOfLen(_)
ClassModulesOfLen(n) ==
    IF n = 0 THEN {<<>>}
    ELSE {Append(m, s) : m \in ClassModulesOfLen(n - 1), s \in ClassStatements}

ClassModules ==
    {m \in UNION {ClassModulesOfLen(n) : n \in 0..MaxEmitStmts} :
        \A i, j \in 1..Len(m) : i # j => m[i] # m[j]}

\* ----------------------------------------------------------- SpecClass
\* this.generator.generate(m), for a module of functions and classes
GenerateClasses ==
    /\ runs < MaxRuns
    /\ \E m \in ClassModules :
        \E generated \in {generate(gen, m)} :
            /\ code' = generated.out
            /\ gen' = generated.g
            /\ lastModule' = m
    /\ runs' = runs + 1
    /\ UNCHANGED dceVars
    /\ UNCHANGED optVars
    /\ UNCHANGED cliVars

NextClass == GenerateClasses

SpecClass == InitEmit /\ [][NextClass]_vars

\* ------------------------------------------------- claims on SpecClass
\* C11: no fragment of the emitted code is the operator `===` or `!==`,
\* whether the binary expression was emitted by the expression visitor or by
\* the static-method body path.
C11_NoStrictOperatorEmitted ==
    \A i \in 1..Len(code) : code[i] \notin {"===", "!=="}

\* A module with `a === b` in a function and `C.instance !== undefined` in a
\* static method was emitted, with `==` and `!=` in the output.
C11_Witness ==
    /\ FunctionStrictEquals \in Range(lastModule)
    /\ ClassSingleton \in Range(lastModule)
    /\ Occurrences(code, <<"a", " ", "==", " ", "b">>) = 1
    /\ Occurrences(code, <<"c", "Instance", " ", "!=", " ", "nil">>) = 1

\* C12: an assignment expression statement in the body of a function or of
\* an instance method is emitted as an assignment statement of the Go
\* function: `n = 1` in h, `b.Value = value` in Box's set method.
C12_BodyAssignmentEmitted ==
    /\ FunctionAssigns \in Range(lastModule)
        => Occurrences(code, <<"n", " ", "=", " ", "1">>) >= 1
    /\ ClassBox \in Range(lastModule)
        => Occurrences(code, <<"b", ".", "Value", " ", "=", " ", "value">>) >= 1

\* ------------------------------------- further claims on SpecEmit
TopLevelAssignment ==
    ExpressionStatement(AssignmentExpression("=", Identifier("n"), Literal("1")))

Levels == {0, 1, 2}

\* Passes a caller registers with addPass; each is a function from a Module
\* to a new Module.
CustomPasses == {"reverse-statements", "drop-first-statement"}

\* Number of addPass calls on one optimizer.
MaxAdded == 1

\* A level-1 list that registers dead-code elimination alone.
initializePasses_withoutFolding(level) ==
    IF level = 0 THEN <<>>
    ELSE (IF level >= 1 THEN <<"dead-code-elimination">> ELSE <<>>)
            \o (IF level >= 2
                THEN <<"type-simplification", "control-flow-normalization", "inlining">>
                ELSE <<>>)

\* initializePasses: the names of the passes pushed for a level
initializePasses(level) ==
    IF level = 0 THEN <<>>
    ELSE (IF level >= 1 THEN <<"dead-code-elimination", "constant-folding">> ELSE <<>>)
            \o (IF level >= 2
                THEN <<"type-simplification", "control-flow-normalization", "inlining">>
                ELSE <<>>)

\* new IROptimizer(options)
NewIROptimizer(level) == [level |-> level, passes |-> initializePasses(level)]

addPass(o, pass) == [o EXCEPT !.passes = Append(@, pass)]

RECURSIVE Reverse(_)
Reverse(s) == IF s = <<>> THEN <<>> ELSE Append(Reverse(Tail(s)), Head(s))

\* A Module object is its statement list; h lists the Module objects, a
\* Module is named by its position in h.  A run that filters the statement
\* list of its argument in place and returns the argument.
DeadCodeEliminationPass_newModule_inPlace(h, id) ==
    [heap |-> [h EXCEPT ![id] = DeadCodeEliminationPass_run(h[id])], result |-> id]

\* DeadCodeEliminationPass.run: `return new ir.Module(...)` over the
\* filtered copy of the statement list
DeadCodeEliminationPass_newModule(h, id) ==
    [heap |-> Append(h, DeadCodeEliminationPass_run(h[id])), result |-> Len(h) + 1]

\* pass.run(module, options) on the Module h[id]: the Module objects after
\* the call and the Module returned
Pass_run(name, h, id) ==
    CASE name = "dead-code-elimination" -> DeadCodeEliminationPass_newModule(h, id)
      [] name \in {"constant-folding", "type-simplification",
                   "control-flow-normalization", "inlining"} ->
            [heap |-> h, result |-> id]
      [] name = "reverse-statements" ->
            [heap |-> Append(h, Reverse(h[id])), result |-> Len(h) + 1]
      [] name = "drop-first-statement" ->
            [heap |-> Append(h, IF h[id] = <<>> THEN <<>> ELSE Tail(h[id])),
             result |-> Len(h) + 1]

RECURSIVE RunPasses(_, _, _, _)
\* the loop of optimize over the remaining passes; calls lists the pass.run
\* calls made so far
RunPasses(passList, h, optimized, calls) ==
    IF passList = <<>> THEN [heap |-> h, result |-> optimized, calls |-> calls]
    ELSE Bind({RunPasses(Tail(passList), ran.heap, ran.result,
                         Append(calls, [pass |-> Head(passList), arg |-> optimized,
                                        result |-> ran.result]))
         : ran \in {Pass_run(Head(passList), h, optimized)}})

\* An optimize that runs the passes last-registered first.
optimize_lastFirst(o, h, id) == RunPasses(Reverse(o.passes), h, id, <<>>)

\* IROptimizer.optimize on the Module h[id]
optimize(o, h, id) == RunPasses(o.passes, h, id, <<>>)

\* --------------------------------------- bounded modules (compiler)
\* Longest top-level statement list of a compiled file.
MaxCompileStmts == 3

\* The statement with the one name it mentions, as SymbolCollector reads it.
Mentioning(stmt, slot, ref) == [slot |-> slot, ref |-> ref] @@ stmt

CompileStatements ==
    {\* export function f(p: C) { return p }
     Mentioning(FunctionDeclaration("f", {"export"},
                                    <<Parameter("p", TypeReference("C", <<>>))>>, NoType,
                                    <<ReturnStatement(Identifier("p"))>>),
                "parameters.type", "C"),
     \* class C { private count: number }
     Mentioning(ClassDeclaration("C", <<PropertyMember("count", PrimitiveType("number"),
                                                       {"private"})>>), "", ""),
     \* var t: [string, number]
     Mentioning(VariableDeclaration("t", StringNumber), "", ""),
     \* n = 1
     Mentioning(TopLevelAssignment, "expression", "n"),
     \* export function h() { return obj.count }
     Mentioning(FunctionDeclaration("h", {"export"}, <<>>, NoType,
                                    <<ReturnStatement(MemberExpression(Identifier("obj"),
                                                                       Identifier("count")))>>),
                "body", "obj")}

RECURSIVE CompileModulesOfLen(_)
CompileModulesOfLen(n) ==
    IF n = 0 THEN {<<>>}
    ELSE {Append(m, s) : m \in CompileModulesOfLen(n - 1), s \in CompileStatements}

CompileModules ==
    {m \in UNION {CompileModulesOfLen(n) : n \in 0..MaxCompileStmts} :
        \A i, j \in 1..Len(m) : i # j => m[i] # m[j]}

\* -------------------------------------------------------- SpecOptimize
\* new IROptimizer(options), and the Module M = heap[1] that
\* IRTransformer.transform returned
InitOptimizer ==
    /\ \E level \in Levels : optimizer = NewIROptimizer(level)
    /\ \E m \in CompileModules :
        /\ heap = <<m>>
        /\ input = m
        /\ module = m
    /\ log = <<>>
    /\ passes = 0
    /\ CliIdle

InitOptimize == InitOptimizer /\ EmitIdle

\* optimizer.addPass(pass)
AddPass ==
    /\ Cardinality({k \in 1..Len(log) : log[k].op = "addPass"}) < MaxAdded
    /\ \E pass \in CustomPasses :
        /\ optimizer' = addPass(optimizer, pass)
        /\ log' = Append(log, [op |-> "addPass", pass |-> pass, calls |-> <<>>,
                               result |-> 0])
    /\ UNCHANGED <<heap, module, input, passes>>
    /\ UNCHANGED emitVars
    /\ UNCHANGED cliVars

\* optimizer.optimize(M); module is the statement list of the Module returned
Optimize ==
    /\ passes < MaxPasses
    /\ \E optimized \in {optimize(optimizer, heap, 1)} :
        /\ heap' = optimized.heap
        /\ module' = optimized.heap[optimized.result]
        /\ log' = Append(log, [op |-> "optimize", pass |-> "", calls |-> optimized.calls,
                               result |-> optimized.result])
    /\ passes' = passes + 1
    /\ UNCHANGED <<optimizer, input>>
    /\ UNCHANGED emitVars
    /\ UNCHANGED cliVars

NextOptimize == AddPass \/ Optimize

SpecOptimize == InitOptimize /\ [][NextOptimize]_vars

\* --------------------------------------------------------- SpecCompile
\* new Compiler(options), and the Module transform returned for the file
InitCompile ==
    /\ InitOptimizer
    /\ gen = NewGenerator
    /\ code = <<>>
    /\ lastModule = <<>>
    /\ runs = 0

\* compileFile, stage 3: this.optimizeIR(irModule)
OptimizeIR == passes = 0 /\ Optimize

\* compileFile, stage 4: this.generator.generate(optimizedIR)
GenerateFile ==
    /\ passes = 1
    /\ runs = 0
    /\ \E generated \in {generate(gen, module)} :
        /\ code' = generated.out
        /\ gen' = generated.g
    /\ lastModule' = module
    /\ runs' = 1
    /\ UNCHANGED dceVars
    /\ UNCHANGED optVars
    /\ UNCHANGED cliVars

NextCompile == OptimizeIR \/ GenerateFile

SpecCompile == InitCompile /\ [][NextCompile]_vars

\* ------------------------------------------------ claims on SpecCompile
\* The position of statement x in a list of pairwise different statements.
IndexOf(statements, x) == CHOOSE i \in 1..Len(statements) : statements[i] = x

\* The first fragments of the text a top-level declaration is emitted as.
HeaderOf(stmt) ==
    CASE stmt.kind = "FunctionDeclaration" ->
            <<"func ", exportName(stmt.name, hasModifier(stmt.modifiers, "export")), "(">>
      [] stmt.kind = "ClassDeclaration" ->
            <<"type ", exportName(stmt.name, hasModifier(stmt.modifiers, "export")),
              " struct {\n">>
      [] stmt.kind = "VariableDeclaration" ->
            <<"var ", exportName(stmt.name, hasModifier(stmt.modifiers, "export")), " ">>

\* Where pattern first occurs in text (0 when it does not occur).
FirstOccurrence(text, pattern) ==
    IF Occurrences(text, pattern) = 0 THEN 0
    ELSE CHOOSE i \in 1..Len(text) :
            /\ i + Len(pattern) - 1 <= Len(text)
            /\ SubSeq(text, i, i + Len(pattern) - 1) = pattern
            /\ \A j \in 1..(i - 1) :
                ~(/\ j + Len(pattern) - 1 <= Len(text)
                  /\ SubSeq(text, j, j + Len(pattern) - 1) = pattern)

PassNamesOf(calls) == [i \in 1..Len(calls) |-> calls[i].pass]

\* The passes registered with addPass before entry k of the log, in call order.
RECURSIVE AddedBefore(_)
AddedBefore(k) ==
    IF k <= 1 THEN <<>>
    ELSE AddedBefore(k - 1)
            \o (IF log[k - 1].op = "addPass" THEN <<log[k - 1].pass>> ELSE <<>>)

C16_RegistrationOrder ==
    \A k \in 1..Len(log) :
        log[k].op = "optimize" =>
            /\ PassNamesOf(log[k].calls)
                = initializePasses(optimizer.level) \o AddedBefore(k)
            /\ \A i \in 1..Len(log[k].calls) :
                log[k].calls[i].arg
                    = IF i = 1 THEN 1 ELSE log[k].calls[i - 1].result

\* optimize was called twice on an optimizer with built-in passes, once
\* before and once after a pass was added.
C16_Witness ==
    /\ optimizer.level >= 1
    /\ \E k1, k2 \in 1..Len(log) :
        /\ k1 < k2
        /\ log[k1].op = "optimize"
        /\ log[k2].op = "optimize"
        /\ AddedBefore(k1) = <<>>
        /\ AddedBefore(k2) # <<>>

\* C17: the module handed to optimize is unchanged after every optimize
\* call; a module returned with fewer statements is another Module object.
C17_InputNotMutated ==
    /\ heap[1] = input
    /\ \A k \in 1..Len(log) :
        (log[k].op = "optimize" /\ heap[log[k].result] # input) => log[k].result # 1

\* The built-in passes removed a statement from the module they returned.
C17_Witness ==
    \E k \in 1..Len(log) :
        /\ log[k].op = "optimize"
        /\ AddedBefore(k) = <<>>
        /\ Len(heap[log[k].result]) < Len(input)
        /\ heap[1] = input

\* ------------------------------------------ further claims on the emitter
\* The class has constructor parameters, a non-empty constructor body or a
\* parent class.
NeedsFactory(node) ==
    \/ \E i \in 1..Len(node.members) :
        /\ node.members[i].kind = "MethodMember"
        /\ node.members[i].name = "constructor"
        /\ (node.members[i].parameters # <<>> \/ node.members[i].body # <<>>)
    \/ \E i \in 1..Len(node.members) :
        /\ node.members[i].kind = "PropertyMember"
        /\ "isConstructorParam" \in node.members[i].metadata
    \/ node.extendsClause # NoType

\* C18 (SpecClass): for every class of the module with constructor
\* parameters, a non-empty constructor body or a parent class, the code
\* holds the factory function `New{Class}(`.
C18_FactoryEmitted ==
    \A i \in 1..Len(lastModule) :
        (lastModule[i].kind = "ClassDeclaration" /\ NeedsFactory(lastModule[i]))
            => Occurrences(code, <<"func ", "New", lastModule[i].name, "(">>) = 1

\* function h() { return obj.count }
FunctionReadsCount ==
    FunctionDeclaration("h", {}, <<>>, NoType,
                        <<ReturnStatement(MemberExpression(Identifier("obj"),
                                                           Identifier("count")))>>)

\* C19 (SpecEmit): in a top-level function, outside any class, the property
\* of the member access `obj.count` is capitalized.
C19_CapitalizedOutsideClass ==
    FunctionReadsCount \in Range(lastModule)
        => Occurrences(code, <<"obj", ".", "Count">>) = 1

\* ------------------------------------------------------- IRTransformer
\* Number of top-level nodes of a source file.
MaxNodes == 2

\* Declarators of one variable statement
MaxDeclarators == 2

\* No node: an absent child, or the null transformStatement returns.
Null == [kind |-> "null"]

\* this.parser.getSourceLocation(node): a node is located by its position
getSourceLocation(node) == node.pos

\* The TypeScript expressions at position pos: an identifier, a numeric
\* literal, and two kinds transformExpression has no case for.
TsExpressionsAt(pos) ==
    {[kind |-> "Identifier", text |-> "x", pos |-> pos],
     [kind |-> "NumericLiteral", text |-> "1", pos |-> pos],
     [kind |-> "ThisKeyword", text |-> "this", pos |-> pos],
     [kind |-> "ParenthesizedExpression", text |-> "(x)", pos |-> pos]}

\* The declarators at positions pos + 1 .. pos + n of a variable statement:
\* each binds an identifier, without type or initializer.
RECURSIVE DeclaratorsOfLen(_, _)
DeclaratorsOfLen(pos, n) ==
    IF n = 0 THEN {<<>>}
    ELSE {Append(ds, [kind |-> "VariableDeclaration", text |-> name, pos |-> pos + n]) :
            ds \in DeclaratorsOfLen(pos, n - 1), name \in {"a", "b"}}

\* The TypeScript nodes that may be child i of the source file; the
\* expression of statement i lies at position 10 * i + 1.  DoStatement and
\* BreakStatement are kinds transformStatement has no case for.
TsStatementsAt(i) ==
    {[kind |-> k, pos |-> 10 * i, expression |-> e] :
        k \in {"ExpressionStatement", "ReturnStatement"}, e \in TsExpressionsAt(10 * i + 1)}
    \cup {[kind |-> "ReturnStatement", pos |-> 10 * i, expression |-> Null]}
    \cup {[kind |-> k, pos |-> 10 * i, expression |-> Null] :
            k \in {"DoStatement", "BreakStatement"}}
    \cup {[kind |-> "VariableStatement", pos |-> 10 * i, expression |-> Null,
            declarations |-> ds] :
            ds \in UNION {DeclaratorsOfLen(10 * i, n) : n \in 1..MaxDeclarators}}

RECURSIVE SourceFilesOfLen(_)
SourceFilesOfLen(n) ==
    IF n = 0 THEN {<<>>}
    ELSE {Append(f, node) : f \in SourceFilesOfLen(n - 1), node \in TsStatementsAt(n)}

SourceFiles == UNION {SourceFilesOfLen(n) : n \in 0..MaxNodes}

\* transformExpression, for the expression kinds of the bounded sources
transformExpression(node) ==
    CASE node.kind = "Identifier" ->
            [kind |-> "Identifier", name |-> node.text, location |-> getSourceLocation(node)]
      [] node.kind = "NumericLiteral" ->
            [kind |-> "Literal", name |-> node.text, location |-> getSourceLocation(node)]
      [] OTHER ->
            [kind |-> "Identifier", name |-> "unknown", location |-> getSourceLocation(node)]

transformExpressionStatement(node) ==
    [kind |-> "ExpressionStatement", expression |-> transformExpression(node.expression),
     location |-> getSourceLocation(node)]

transformReturnStatement(node) ==
    [kind |-> "ReturnStatement",
     expression |-> IF node.expression # Null THEN transformExpression(node.expression)
                    ELSE Null,
     location |-> getSourceLocation(node)]

\* A node built without a location argument: location is undefined
NoLocation == 0

\* transformVariableStatement: one ir.VariableDeclaration per declarator;
\* a single one is returned as it is, several inside one ir.BlockStatement
transformVariableStatement(node) ==
    IF Len(node.declarations) = 1
    THEN [kind |-> "VariableDeclaration", name |-> node.declarations[1].text,
          expression |-> Null, location |-> getSourceLocation(node.declarations[1])]
    ELSE [kind |-> "BlockStatement",
          statements |-> [k \in 1..Len(node.declarations) |->
                            [kind |-> "VariableDeclaration",
                             name |-> node.declarations[k].text,
                             expression |-> Null,
                             location |-> getSourceLocation(node.declarations[k])]],
          expression |-> Null, location |-> NoLocation]

\* transformStatement, for the statement kinds of the bounded sources
transformStatement(node) ==
    CASE node.kind = "VariableStatement" -> transformVariableStatement(node)
      [] node.kind = "ExpressionStatement" -> transformExpressionStatement(node)
      [] node.kind = "ReturnStatement" -> transformReturnStatement(node)
      [] OTHER -> Null

RECURSIVE transform(_)
\* transform: ts.forEachChild(sourceFile, ...) pushes every statement that
\* is not null
transform(sourceFile) ==
    IF sourceFile = <<>> THEN <<>>
    ELSE (IF transformStatement(Head(sourceFile)) # Null
          THEN <<transformStatement(Head(sourceFile))>> ELSE <<>>)
            \o transform(Tail(sourceFile))

\* ------------------------------------------------------- SpecTransform
\* A source file is parsed; input holds its top-level nodes.
InitTransform ==
    /\ input \in SourceFiles
    /\ module = <<>>
    /\ passes = 0
    /\ EmitIdle
    /\ OptimizerIdle
    /\ CliIdle

\* this.transformer.transform(tsAst); module is the statement list of the
\* ir.Module returned
Transform ==
    /\ passes = 0
    /\ module' = transform(input)
    /\ passes' = 1
    /\ UNCHANGED input
    /\ UNCHANGED emitVars
    /\ UNCHANGED optVars
    /\ UNCHANGED cliVars

NextTransform == Transform

SpecTransform == InitTransform /\ [][NextTransform]_vars

\* ---------------------------------------------- claims on SpecTransform
\* The constructs of the source file the lowering has no case for.
UnsupportedConstructs(sourceFile) ==
    {sourceFile[i] : i \in {j \in 1..Len(sourceFile) :
        sourceFile[j].kind \notin
            {"VariableStatement", "ExpressionStatement", "ReturnStatement"}}}
    \cup {sourceFile[i].expression : i \in {j \in 1..Len(sourceFile) :
            /\ sourceFile[j].kind \in {"ExpressionStatement", "ReturnStatement"}
            /\ sourceFile[j].expression # Null
            /\ sourceFile[j].expression.kind \notin {"Identifier", "NumericLiteral"}}}

\* The nodes of an IR statement list: the statements and their expressions.
IRNodes(statements) ==
    Range(statements)
        \cup {statements[i].expression : i \in {j \in 1..Len(statements) :
                statements[j].expression # Null}}

\* C20: after transform, for every unsupported statement or expression of
\* the source file the IR holds a node that carries the location of that
\* construct.
C20_PlaceholderForUnsupported ==
    passes = 1 =>
        \A construct \in UnsupportedConstructs(input) :
            \E node \in IRNodes(module) : node.location = getSourceLocation(construct)

\* C21: after transform, every declarator of a variable statement with more
\* than one declarator is a variable declaration of its own in the
\* statement list of the module.
C21_DeclaratorsSplit ==
    passes = 1 =>
        \A i \in 1..Len(input) :
            (input[i].kind = "VariableStatement" /\ Len(input[i].declarations) > 1) =>
                \A k \in 1..Len(input[i].declarations) :
                    \E j \in 1..Len(module) :
                        /\ module[j].kind = "VariableDeclaration"
                        /\ module[j].name = input[i].declarations[k].text
                        /\ module[j].location = getSourceLocation(input[i].declarations[k])

\* ------------------------------------------------ Compiler.compileFile
\* compileFile calls on one Compiler
MaxCompiles == 2

\* The stages of compileFile, in the order of its awaits.
Stages == <<"parseFile", "transform", "optimizeIR", "generate">>

\* The stage whose call throws an Error, if any does.
Raising == {"none", "parseFile", "transform", "optimizeIR", "generate"}

\* The stages that returned before the stage that threw.
StagesBefore(raised) ==
    CASE raised = "none" -> Stages
      [] raised = "parseFile" -> <<>>
      [] raised = "transform" -> <<"parseFile">>
      [] raised = "optimizeIR" -> <<"parseFile", "transform">>
      [] raised = "generate" -> <<"parseFile", "transform", "optimizeIR">>

\* wrapError(error)
wrapError(message) ==
    [code |-> "E0000", message |-> message, location |-> "undefined", severity |-> "error"]

\* collectWarnings()
collectWarnings == <<>>

\* The catch block of compileFile
compileFile_catch(message) ==
    [success |-> FALSE, errors |-> <<wrapError(message)>>, warnings |-> collectWarnings]

\* compileFile on a file that lowers to module m, with the Error a stage
\* throws: the CompilationResult returned, the stages that returned, and
\* the optimizer's modules and the generator after the call.  A stage that
\* throws leaves the objects as they were.
compileFile(o, g, m, raised) ==
    IF raised \in {"parseFile", "transform"}
    THEN [result |-> compileFile_catch(raised), completed |-> StagesBefore(raised),
          heap |-> <<>>, module |-> <<>>, g |-> g]
    ELSE IF raised = "optimizeIR"
    THEN [result |-> compileFile_catch(raised), completed |-> StagesBefore(raised),
          heap |-> <<m>>, module |-> m, g |-> g]
    ELSE Bind({
            IF raised = "generate"
            THEN [result |-> compileFile_catch(raised), completed |-> StagesBefore(raised),
                  heap |-> optimized.heap, module |-> optimized.heap[optimized.result],
                  g |-> g]
            ELSE Bind({[result |-> [success |-> TRUE, output |-> generated.out,
                                    warnings |-> collectWarnings],
                        completed |-> Stages,
                        heap |-> optimized.heap,
                        module |-> optimized.heap[optimized.result],
                        g |-> generated.g]
                 : generated \in {generate(g, optimized.heap[optimized.result])}})
         : optimized \in {optimize(o, <<m>>, 1)}})

\* ------------------------------------------------------------ SpecFile
\* new Compiler(options); input is the module the file lowers to
InitFile ==
    /\ \E strict \in BOOLEAN :
        compilation = [options |-> [strict |-> strict], raised |-> "none",
                       completed |-> <<>>, result |-> <<>>]
    /\ \E level \in Levels : optimizer = NewIROptimizer(level)
    /\ input \in CompileModules
    /\ gen = NewGenerator
    /\ module = <<>>
    /\ passes = 0
    /\ code = <<>>
    /\ lastModule = <<>>
    /\ runs = 0
    /\ heap = <<>>
    /\ log = <<>>
    /\ watch = <<>>

\* compiler.compileFile(filePath)
CompileFile ==
    /\ runs < MaxCompiles
    /\ \E raised \in Raising :
        \E call \in {compileFile(optimizer, gen, input, raised)} :
            /\ compilation' = [compilation EXCEPT !.raised = raised,
                                                  !.completed = call.completed,
                                                  !.result = call.result]
            /\ heap' = call.heap
            /\ module' = call.module
            /\ gen' = call.g
            /\ code' = IF call.result.success THEN call.result.output ELSE code
            /\ lastModule' = IF call.result.success THEN call.module ELSE lastModule
    /\ runs' = runs + 1
    /\ UNCHANGED <<input, passes, optimizer, log, watch>>

NextFile == CompileFile

SpecFile == InitFile /\ [][NextFile]_vars

\* --------------------------------------------------- claims on SpecFile
\* C22: when a stage after parsing throws, the error is recorded in the
\* result's error list; with strict off all four stages still complete for
\* the file, and only with strict on the call stops at the stage that threw.
C22_ErrorDoesNotAbort ==
    (runs > 0 /\ compilation.raised \in {"transform", "optimizeIR", "generate"}) =>
        /\ Len(compilation.result.errors) >= 1
        /\ ~compilation.options.strict => compilation.completed = Stages
        /\ compilation.options.strict => compilation.completed # Stages

\* ------------------------------- bounded modules (functions: async, try)
\* async function g(): Promise<number> { return n }
FunctionAsyncPromise ==
    FunctionDeclaration("g", {"async"}, <<>>,
                        TypeReference("Promise", <<PrimitiveType("number")>>),
                        <<ReturnStatement(Identifier("n"))>>)

\* async function d(): Promise<Date> { return n }
FunctionAsyncPromiseDate ==
    FunctionDeclaration("d", {"async"}, <<>>,
                        TypeReference("Promise", <<TypeReference("Date", <<>>)>>),
                        <<ReturnStatement(Identifier("n"))>>)

\* async function p(): number { return n }
FunctionAsyncNumber ==
    FunctionDeclaration("p", {"async"}, <<>>, PrimitiveType("number"),
                        <<ReturnStatement(Identifier("n"))>>)

DoSomething == ExpressionStatement(CallExpression(Identifier("doSomething"), <<>>))
HandleError ==
    ExpressionStatement(CallExpression(Identifier("handleError"), <<Identifier("err")>>))
Cleanup == ExpressionStatement(CallExpression(Identifier("cleanup"), <<>>))

\* function f() { try { doSomething() } catch (err) { handleError(err) }
\*                finally { cleanup() } }
FunctionTryCatchFinally ==
    FunctionDeclaration("f", {}, <<>>, NoType,
                        <<TryStatement(<<DoSomething>>,
                                       <<CatchClause("err", <<HandleError>>)>>,
                                       <<(<<Cleanup>>)>>)>>)

\* function h() { try { doSomething() } catch (err) { handleError(err) } }
FunctionTryCatch ==
    FunctionDeclaration("h", {}, <<>>, NoType,
                        <<TryStatement(<<DoSomething>>,
                                       <<CatchClause("err", <<HandleError>>)>>, <<>>)>>)

\* function t() { try { doSomething() } finally { cleanup() } }
FunctionTryFinally ==
    FunctionDeclaration("t", {}, <<>>, NoType,
                        <<TryStatement(<<DoSomething>>, <<>>, <<(<<Cleanup>>)>>)>>)

FunctionStatements ==
    {FunctionAsyncPromise, FunctionAsyncPromiseDate, FunctionAsyncNumber,
     FunctionTryCatchFinally, FunctionTryCatch, FunctionTryFinally}

RECURSIVE FunctionModulesOfLen(_)
FunctionModulesOfLen(n) ==
    IF n = 0 THEN {<<>>}
    ELSE {Append(m, s) : m \in FunctionModulesOfLen(n - 1), s \in FunctionStatements}

FunctionModules ==
    {m \in UNION {FunctionModulesOfLen(n) : n \in 0..MaxEmitStmts} :
        \A i, j \in 1..Len(m) : i # j => m[i] # m[j]}

\* ------------------------------------------------------- SpecFunctions
\* new GoCodeGenerator(options), with one of the two error-handling
\* strategies
InitFunctions ==
    /\ \E errorHandling \in {"return", "panic"} :
        gen = [NewGenerator EXCEPT !.options.errorHandling = errorHandling]
    /\ code = <<>>
    /\ lastModule = <<>>
    /\ runs = 0
    /\ module = <<>>
    /\ input = <<>>
    /\ passes = 0
    /\ OptimizerIdle
    /\ CliIdle

\* this.generator.generate(m) on a module of functions
GenerateFunctions ==
    /\ runs < MaxRuns
    /\ \E m \in FunctionModules :
        \E generated \in {generate(gen, m)} :
            /\ code' = generated.out
            /\ gen' = generated.g
            /\ lastModule' = m
    /\ runs' = runs + 1
    /\ UNCHANGED dceVars
    /\ UNCHANGED optVars
    /\ UNCHANGED cliVars

NextFunctions == GenerateFunctions

SpecFunctions == InitFunctions /\ [][NextFunctions]_vars

\* ---------------------------------------------- claims on SpecFunctions
\* C23: an async function declared to return Promise<number> is emitted
\* with the return type (float64, error), and the name Promise does not
\* occur in the code of a module whose only Promise types are return types
\* of async functions.
C23_PromiseUnwrapped ==
    /\ FunctionAsyncPromise \in Range(lastModule) =>
            Occurrences(code, <<"func ", "g", "(", "ctx context.Context", ")", " ", "(",
                                "float64", ", error)">>) >= 1
    /\ \A i \in 1..Len(code) : code[i] # "Promise"

\* C24: under the error-handling strategy `return`, the code of a function
\* with try/catch/finally holds the finalizer body inside a deferred
\* function and the handler body.
C24_HandlerAndFinalizerEmitted ==
    (FunctionTryCatchFinally \in Range(lastModule) /\ gen.options.errorHandling = "return") =>
        /\ Occurrences(code, <<"handleError", "(", "err", ")">>) >= 1
        /\ Occurrences(code, <<"cleanup", "(", ")">>) >= 1
        /\ \E i \in 1..Len(code) : code[i] = "defer func() "

\* ------------------------------------------------------- watch command
\* add/change events the watcher delivers for one path
MaxEvents == 3

\* The paths the watcher reports.
WatchedFiles == {"a.ts", "b.ts", "notes.md"}

\* filePath.endsWith('.ts')
endsWithTs(filePath) == filePath \in {"a.ts", "b.ts"}

\* How the awaited compileFile call and the write of its output end: the
\* result has success true and the .go file is written, the result has
\* success false, or an Error is thrown (by the call or by writeFileSync).
Outcomes == {"success", "failed", "threw"}

\* The watcher after chokidar.watch: the compiling flag, the compile calls
\* waiting at their await, and per file the number of events delivered
\* (its version), the version the last compile call of it read, and the
\* version its written output was compiled from.
NewWatcher ==
    [compiling |-> FALSE,
     calls |-> <<>>,
     version |-> [f \in WatchedFiles |-> 0],
     started |-> [f \in WatchedFiles |-> 0],
     written |-> [f \in WatchedFiles |-> 0],
     last |-> "none"]

\* A compile that does not test the compiling flag.
compile_withoutGuard(w, filePath) ==
    [w EXCEPT !.compiling = TRUE,
              !.calls = Append(@, [file |-> filePath, version |-> w.version[filePath]]),
              !.started[filePath] = w.version[filePath]]

\* compile(filePath) up to `await compiler.compileFile(filePath)`;
\* compileFile reads the file before its first await
compile(w, filePath) ==
    IF w.compiling THEN w
    ELSE [w EXCEPT !.compiling = TRUE,
                   !.calls = Append(@, [file |-> filePath,
                                        version |-> w.version[filePath]]),
                   !.started[filePath] = w.version[filePath]]

\* The handlers of 'add' and of 'change'
onAddOrChange(w, filePath) ==
    IF endsWithTs(filePath) THEN compile(w, filePath) ELSE w

\* compile(filePath) from its await on, for the call at position k: the
\* try block's rest or the catch block, then the finally block
compile_resume(w, k, outcome) ==
    [w EXCEPT !.written[w.calls[k].file] =
                    IF outcome = "success" THEN w.calls[k].version ELSE @,
              !.calls = SubSeq(w.calls, 1, k - 1) \o SubSeq(w.calls, k + 1, Len(w.calls)),
              !.compiling = FALSE,
              !.last = outcome]

\* ----------------------------------------------------------- SpecWatch
InitWatch ==
    /\ watch = NewWatcher
    /\ compilation = <<>>
    /\ module = <<>>
    /\ input = <<>>
    /\ passes = 0
    /\ EmitIdle
    /\ OptimizerIdle

\* The file is added or changed, and the watcher calls the handler.
WatchEvent ==
    /\ \E f \in WatchedFiles :
        /\ watch.version[f] < MaxEvents
        /\ watch' = onAddOrChange([watch EXCEPT !.version[f] = @ + 1], f)
    /\ UNCHANGED <<compilation, dceVars, emitVars, optVars>>

\* The promise a compile call awaits settles.
CompileSettles ==
    /\ \E k \in 1..Len(watch.calls) :
        \E outcome \in Outcomes :
            watch' = compile_resume(watch, k, outcome)
    /\ UNCHANGED <<compilation, dceVars, emitVars, optVars>>

NextWatch == WatchEvent \/ CompileSettles

SpecWatch == InitWatch /\ [][NextWatch]_vars

\* Every awaited compileFile call settles.
SpecWatchLive == SpecWatch /\ WF_vars(CompileSettles)

\* ---------------------------------------------------- claims on SpecWatch
\* C25: the compiling flag is true exactly when a compile call started by
\* the watcher waits for compileFile, and at most one call waits.
C25_FlagIffInFlight ==
    /\ watch.compiling <=> Len(watch.calls) > 0
    /\ Len(watch.calls) <= 1

\* A compile has thrown, the flag is false again, and an event that came
\* while a compile was waiting started no second call.
C25_Witness ==
    /\ ~watch.compiling
    /\ watch.last = "threw"
    /\ \E f \in WatchedFiles : endsWithTs(f) /\ watch.started[f] < watch.version[f]

\* C26: in watch mode the n-th add/change event of a .ts file is eventually
\* followed by a compile call of that file that reads the file after the
\* event.
C26_EventEventuallyCompiled ==
    \A f \in {"a.ts", "b.ts"} : \A n \in 1..MaxEvents :
        (watch.version[f] = n) ~> (watch.started[f] >= n)

\* --------------------------------------- modules with an export list
\* Longest statement list of a module with an export list.
MaxExportStmts == 2

\* transformExportDeclaration, for `export { x, ... }`: no declaration, one
\* specifier per element, no source
ExportSpecifier(local, exported) == [local |-> local, exported |-> exported]
ExportDeclaration(names) ==
    [declaration |-> "undefined",
     specifiers |-> [k \in 1..Len(names) |-> ExportSpecifier(names[k], names[k])],
     source |-> "undefined", isDefault |-> FALSE]

\* The statements that may stand at position i: a declaration named
\* DeclNames[i], with or without the export modifier, or an expression
\* statement that mentions one of the names.
ExportStmtsAt(i) ==
    {[kind |-> k, name |-> DeclNames[i], modifiers |-> m, slot |-> "", ref |-> ""] :
        k \in {"VariableDeclaration", "FunctionDeclaration", "ClassDeclaration"},
        m \in {{}, {"export"}}}
    \cup {[kind |-> "ExpressionStatement", name |-> "", modifiers |-> {},
           slot |-> "expression", ref |-> DeclNames[j]] : j \in 1..MaxExportStmts}

RECURSIVE ExportStatementsOfLen(_)
ExportStatementsOfLen(n) ==
    IF n = 0 THEN {<<>>}
    ELSE {Append(m, stmt) : m \in ExportStatementsOfLen(n - 1), stmt \in ExportStmtsAt(n)}

\* The export lists over the names a..: none, or one `export { ... }` with
\* the first k names or with the k-th name alone.
ExportLists ==
    {<<>>}
        \cup {<<ExportDeclaration(SubSeq(DeclNames, 1, k))>> : k \in 1..MaxExportStmts}
        \cup {<<ExportDeclaration(<<DeclNames[k]>>)>> : k \in 1..MaxExportStmts}

\* The modules transform returns: statements and exports.
ExportModules ==
    [statements : UNION {ExportStatementsOfLen(n) : n \in 0..MaxExportStmts},
     exports : ExportLists]

\* DeadCodeEliminationPass.run on a Module with its exports: the new Module
\* takes the filtered statements and module.exports as it is
DeadCodeEliminationPass_runModule(m) ==
    [statements |-> DeadCodeEliminationPass_run(m.statements), exports |-> m.exports]

\* --------------------------------------------------------- SpecExports
InitExports ==
    /\ input \in ExportModules
    /\ module = input
    /\ passes = 0
    /\ EmitIdle
    /\ OptimizerIdle
    /\ CliIdle

\* optimized = pass.run(optimized, options), for dead-code elimination
RunExportsDCE ==
    /\ passes < MaxPasses
    /\ module' = DeadCodeEliminationPass_runModule(module)
    /\ passes' = passes + 1
    /\ UNCHANGED input
    /\ UNCHANGED emitVars
    /\ UNCHANGED optVars
    /\ UNCHANGED cliVars

NextExports == RunExportsDCE

SpecExports == InitExports /\ [][NextExports]_vars

\* ------------------------------------------------ claims on SpecExports
\* The local names the export lists of a module export.
ExportListNames(m) ==
    UNION {{m.exports[e].specifiers[k].local : k \in 1..Len(m.exports[e].specifiers)} :
            e \in 1..Len(m.exports)}

\* C27: a declaration without the export modifier that no statement
\* mentions and that an export list of the module names is a statement of
\* the module after dead-code elimination.
C27_ExportListKept ==
    \A i \in 1..Len(input.statements) :
        (/\ passes > 0
         /\ IsDeclaration(input.statements[i])
         /\ ~isExported(input.statements[i])
         /\ input.statements[i].name \notin collectUsedSymbols(input.statements)
         /\ input.statements[i].name \in ExportListNames(input)) =>
            input.statements[i] \in Range(module.statements)

\* ------------------------------------------- further claims on SpecClass
\* The calls of the factory of class `name` in a text: the occurrences of
\* `New{name}(` that do not follow `func `.
FactoryCalls(text, name) ==
    Occurrences(text, <<"New", name, "(">>) - Occurrences(text, <<"func ", "New", name, "(">>)

\* C28 (SpecClass): when the code of a module calls the factory of a class
\* the module declares, the code also defines that factory.
C28_CalledFactoryDefined ==
    \A i \in 1..Len(lastModule) :
        (lastModule[i].kind = "ClassDeclaration"
            /\ FactoryCalls(code, lastModule[i].name) > 0)
            => Occurrences(code, <<"func ", "New", lastModule[i].name, "(">>) >= 1

\* --------------------------------------------- Compiler.compileProject
\* Files of a project
MaxFiles == 2

\* The modules the files of a project lower to: at most one statement each.
ProjectFiles == {m \in CompileModules : Len(m) <= 1}

RECURSIVE ProjectsOfLen(_)
ProjectsOfLen(n) ==
    IF n = 0 THEN {<<>>}
    ELSE {Append(project, m) : project \in ProjectsOfLen(n - 1), m \in ProjectFiles}

Projects == UNION {ProjectsOfLen(n) : n \in 1..MaxFiles}

RECURSIVE generateAll(_, _)
\* resolvedModules.map(m => this.generator.generate(m)): the codes, in the
\* order of the modules, and the generator after the last call
generateAll(g, modules) ==
    IF modules = <<>> THEN Out(<<>>, g)
    ELSE Bind({
                 Bind({Out(<<generated.out>> \o rest.out, rest.g)
                 : rest \in {generateAll(generated.g, Tail(modules))}})
         : generated \in {generate(g, Head(modules))}})

\* resolveModuleDependencies(modules)
resolveModuleDependencies(modules) == modules

\* compileProject on files that lower to `modules`, no stage throwing:
\* the CompilationResult (files maps the position of a module to its code)
\* and the generator after the call
compileProject(g, modules) ==
    Bind({[result |-> [success |-> TRUE,
                       output |-> [goMod |-> "module generated\n\ngo 1.21",
                                   files |-> goFiles.out],
                       warnings |-> collectWarnings],
           g |-> goFiles.g]
    : goFiles \in {generateAll(g, resolveModuleDependencies(modules))}})

\* --------------------------------------------------------- SpecProject
\* new Compiler(options); input lists the modules the project's files
\* lower to
InitProject ==
    /\ \E level \in Levels : optimizer = NewIROptimizer(level)
    /\ input \in Projects
    /\ compilation = [project |-> <<>>, outputs |-> <<>>]
    /\ gen = NewGenerator
    /\ module = <<>>
    /\ passes = 0
    /\ code = <<>>
    /\ lastModule = <<>>
    /\ runs = 0
    /\ heap = <<>>
    /\ log = <<>>
    /\ watch = <<>>

\* compiler.compileProject(projectPath)
CompileProject ==
    /\ compilation.project = <<>>
    /\ \E call \in {compileProject(gen, input)} :
        /\ compilation' = [compilation EXCEPT !.project = <<call.result>>]
        /\ gen' = call.g
        /\ code' = call.result.output.files[Len(input)]
        /\ lastModule' = input[Len(input)]
    /\ runs' = runs + Len(input)
    /\ UNCHANGED <<input, module, passes, heap, optimizer, log, watch>>

\* compiler.compileFile(file), for the next file of the project
CompileFileOfProject ==
    /\ Len(compilation.outputs) < Len(input)
    /\ \E call \in {compileFile(optimizer, gen, input[Len(compilation.outputs) + 1], "none")} :
        /\ compilation' = [compilation EXCEPT !.outputs = Append(@, call.result)]
        /\ heap' = call.heap
        /\ module' = call.module
        /\ gen' = call.g
        /\ code' = call.result.output
        /\ lastModule' = call.module
    /\ runs' = runs + 1
    /\ UNCHANGED <<input, passes, optimizer, log, watch>>

NextProject == CompileProject \/ CompileFileOfProject

SpecProject == InitProject /\ [][NextProject]_vars

\* ------------------------------------------------ claims on SpecProject
\* C29: the code compileProject stores for a file of the project is the
\* code compileFile returns for that file, on a compiler with the same
\* options.
C29_ProjectEqualsFile ==
    compilation.project # <<>> =>
        \A i \in 1..Len(compilation.outputs) :
            compilation.project[1].output.files[i] = compilation.outputs[i].output

\* ------------------------------------------------------ IR node visitor
\* accept of every concrete IRNode class: the class, and the visitor method
\* its accept calls with `this`
NodeAccepts ==
    {<<"PrimitiveType", "visitPrimitiveType">>, <<"ArrayType", "visitArrayType">>,
     <<"TupleType", "visitTupleType">>, <<"ObjectType", "visitObjectType">>,
     <<"PropertySignature", "visitPropertySignature">>,
     <<"IndexSignature", "visitIndexSignature">>,
     <<"FunctionType", "visitFunctionType">>, <<"UnionType", "visitUnionType">>,
     <<"IntersectionType", "visitIntersectionType">>,
     <<"TypeReference", "visitTypeReference">>, <<"LiteralType", "visitLiteralType">>,
     <<"VariableDeclaration", "visitVariableDeclaration">>,
     <<"FunctionDeclaration", "visitFunctionDeclaration">>,
     <<"Parameter", "visitParameter">>, <<"TypeParameter", "visitTypeParameter">>,
     <<"ClassDeclaration", "visitClassDeclaration">>,
     <<"PropertyMember", "visitPropertyMember">>,
     <<"MethodMember", "visitMethodMember">>,
     <<"InterfaceDeclaration", "visitInterfaceDeclaration">>,
     <<"TypeAliasDeclaration", "visitTypeAliasDeclaration">>,
     <<"EnumDeclaration", "visitEnumDeclaration">>, <<"EnumMember", "visitEnumMember">>,
     <<"BlockStatement", "visitBlockStatement">>,
     <<"ExpressionStatement", "visitExpressionStatement">>,
     <<"ReturnStatement", "visitReturnStatement">>,
     <<"IfStatement", "visitIfStatement">>, <<"WhileStatement", "visitWhileStatement">>,
     <<"ForStatement", "visitForStatement">>,
     <<"ForOfStatement", "visitForOfStatement">>,
     <<"TryStatement", "visitTryStatement">>, <<"CatchClause", "visitCatchClause">>,
     <<"ThrowStatement", "visitThrowStatement">>,
     <<"SwitchStatement", "visitSwitchStatement">>, <<"SwitchCase", "visitSwitchCase">>,
     <<"Identifier", "visitIdentifier">>, <<"Literal", "visitLiteral">>,
     <<"ArrayExpression", "visitArrayExpression">>,
     <<"ObjectExpression", "visitObjectExpression">>, <<"Property", "visitProperty">>,
     <<"FunctionExpression", "visitFunctionExpression">>,
     <<"ArrowFunctionExpression", "visitArrowFunctionExpression">>,
     <<"CallExpression", "visitCallExpression">>,
     <<"MemberExpression", "visitMemberExpression">>,
     <<"NewExpression", "visitNewExpression">>,
     <<"BinaryExpression", "visitBinaryExpression">>,
     <<"UnaryExpression", "visitUnaryExpression">>,
     <<"AssignmentExpression", "visitAssignmentExpression">>,
     <<"ConditionalExpression", "visitConditionalExpression">>,
     <<"AwaitExpression", "visitAwaitExpression">>,
     <<"SpreadElement", "visitSpreadElement">>,
     <<"TemplateLiteral", "visitTemplateLiteral">>, <<"Module", "visitModule">>,
     <<"ImportDeclaration", "visitImportDeclaration">>,
     <<"ImportSpecifier", "visitImportSpecifier">>,
     <<"ExportDeclaration", "visitExportDeclaration">>,
     <<"ExportSpecifier", "visitExportSpecifier">>}
\* The methods the interface IRVisitor declares
IRVisitorMethods ==
    {"visitPrimitiveType", "visitArrayType", "visitTupleType", "visitObjectType",
     "visitFunctionType", "visitUnionType", "visitIntersectionType",
     "visitTypeReference", "visitLiteralType", "visitPropertySignature",
     "visitIndexSignature", "visitVariableDeclaration", "visitFunctionDeclaration",
     "visitClassDeclaration", "visitInterfaceDeclaration", "visitTypeAliasDeclaration",
     "visitEnumDeclaration", "visitParameter", "visitTypeParameter",
     "visitPropertyMember", "visitMethodMember", "visitEnumMember",
     "visitBlockStatement", "visitExpressionStatement", "visitReturnStatement",
     "visitIfStatement", "visitWhileStatement", "visitForStatement",
     "visitForOfStatement", "visitTryStatement", "visitCatchClause",
     "visitThrowStatement", "visitSwitchStatement", "visitSwitchCase",
     "visitIdentifier", "visitLiteral", "visitArrayExpression", "visitObjectExpression",
     "visitProperty", "visitFunctionExpression", "visitArrowFunctionExpression",
     "visitCallExpression", "visitMemberExpression", "visitNewExpression",
     "visitBinaryExpression", "visitUnaryExpression", "visitAssignmentExpression",
     "visitConditionalExpression", "visitAwaitExpression", "visitSpreadElement",
     "visitTemplateLiteral", "visitModule", "visitImportDeclaration",
     "visitImportSpecifier", "visitExportDeclaration", "visitExportSpecifier"}
\* The public visit methods of GoCodeGenerator
GoCodeGeneratorMethods ==
    {"visitModule", "visitImportDeclaration", "visitImportSpecifier",
     "visitExportDeclaration", "visitExportSpecifier", "visitPrimitiveType",
     "visitArrayType", "visitTupleType", "visitObjectType", "visitFunctionType",
     "visitUnionType", "visitIntersectionType", "visitTypeReference",
     "visitLiteralType", "visitPropertySignature", "visitIndexSignature",
     "visitVariableDeclaration", "visitFunctionDeclaration", "visitParameter",
     "visitTypeParameter", "visitClassDeclaration", "visitPropertyMember",
     "visitMethodMember", "visitInterfaceDeclaration", "visitTypeAliasDeclaration",
     "visitEnumDeclaration", "visitEnumMember", "visitBlockStatement",
     "visitExpressionStatement", "visitReturnStatement", "visitIfStatement",
     "visitWhileStatement", "visitForStatement", "visitForOfStatement",
     "visitTryStatement", "visitCatchClause", "visitThrowStatement",
     "visitSwitchStatement", "visitSwitchCase", "visitIdentifier", "visitLiteral",
     "visitArrayExpression", "visitObjectExpression", "visitProperty",
     "visitFunctionExpression", "visitArrowFunctionExpression", "visitCallExpression",
     "visitMemberExpression", "visitNewExpression", "visitSuperExpression",
     "visitBinaryExpression", "visitUnaryExpression", "visitAssignmentExpression",
     "visitConditionalExpression", "visitAwaitExpression", "visitSpreadElement",
     "visitTemplateLiteral"}

NodeClasses == {a[1] : a \in NodeAccepts}

\* The classes that implement IRVisitor
Visitors == {"SymbolCollector", "GoCodeGenerator"}

\* node.accept(visitor) for a node of class nodeClass: the visitor methods
\* called
accept(nodeClass) == {a[2] : a \in {b \in NodeAccepts : b[1] = nodeClass}}

\* --------------------------------------------------------- SpecVisitor
\* A node of some class and a visitor; log lists the visitor methods called.
InitVisitor ==
    /\ \E nodeClass \in NodeClasses : \E visitor \in Visitors :
        input = [node |-> nodeClass, visitor |-> visitor]
    /\ log = <<>>
    /\ module = <<>>
    /\ passes = 0
    /\ EmitIdle
    /\ optimizer = <<>>
    /\ heap = <<>>
    /\ CliIdle

\* node.accept(visitor)
Accept ==
    /\ passes = 0
    /\ \E method \in accept(input.node) : log' = Append(log, method)
    /\ passes' = 1
    /\ UNCHANGED <<input, module, optimizer, heap>>
    /\ UNCHANGED emitVars
    /\ UNCHANGED cliVars

NextVisitor == Accept

SpecVisitor == InitVisitor /\ [][NextVisitor]_vars

\* ------------------------------------------------ claims on SpecVisitor
\* C30: accept of a node calls exactly one visitor method, nodes of
\* different classes call different methods, and every method IRVisitor
\* declares and every visit method of the emitter is called by the accept
\* of some node class.
C30_DispatchOneToOne ==
    /\ Cardinality(accept(input.node)) = 1
    /\ passes = 1 => Len(log) = 1 /\ log[1] \in IRVisitorMethods
    /\ \A a, b \in NodeAccepts : a[2] = b[2] => a[1] = b[1]
    /\ \A method \in IRVisitorMethods : \E nodeClass \in NodeClasses : method \in accept(nodeClass)
    /\ \A method \in GoCodeGeneratorMethods :
        \E nodeClass \in NodeClasses : method \in accept(nodeClass)

====
